---------------------------- MODULE Spec2Model ----------------------------
(*
  A state-machine model of the message-passing stack of
  shilangyu/distributed-algorithms:

    PerfectLink              include/perfect_link.hpp, src/perfect_link.cpp
    BestEffortBroadcast      include/best_effort_broadcast.hpp
    UniformReliableBroadcast include/uniform_reliable_broadcast.hpp,
                             src/uniform_reliable_broadcast.cpp
    LatticeAgreement         src/lattice_agreement.cpp
    FifoBroadcast            include/fifo_broadcast.hpp

  Each layer has its own specification (SpecPL, SpecURB, SpecLA, SpecFIFO
  and their fair variants; SpecApi takes the calls of one link one at a
  time; SpecLocks follows the mutexes and the semaphore of the two
  threads of one process).  The variables of the layers a specification
  does not exercise stay at their initial value.
*)
EXTENDS Integers, Sequences, FiniteSets, TLC

(***************************************************************************)
(* Generic helpers                                                         *)
(***************************************************************************)

\* std::unordered_map::try_emplace: inserts only when the key is absent.
TryEmplace(m, k, v) == IF k \in DOMAIN m THEN m ELSE m @@ (k :> v)

\* std::unordered_map::erase(key): a no-op when the key is absent.
Erase(m, k) == [x \in DOMAIN m \ {k} |-> m[x]]

\* The empty map.
EmptyMap == [x \in {} |-> 0]

\* m with key k bound to v (operator[] followed by an assignment).
Put(m, k, v) == (k :> v) @@ m

(***************************************************************************)
(* PERFECT LINK                                                            *)
(***************************************************************************)

\* The processes of the perfect-link specification (ProcessId starts at 1).
PLProcs == 1 .. 2

\* Application threads that may call PerfectLink::send on one link at the
\* same time (send is documented "Thread safe").  The receive loop runs on a
\* thread of its own.
PLThreads == {"t1", "t2"}

\* Payloads handed to send.
PLPayloads == {"a", "b"}

\* Bound: the number of send calls made in one run, over all processes.
MaxSends == 2

\* sizeof(PerfectLink::MessageIdType): the seq_nr takes four header bytes.
SeqBytes == 4

\* One byte holds 256 values (the "& 0xff" of the encoders).
ByteRange == 256

\* PerfectLink::_seq_nr starts at 1.
InitialSeqNr == 1

VARIABLES
  pl_seq_nr,       \* [p] PerfectLink::_seq_nr
  pl_pending,      \* [p] PerfectLink::_pending_for_ack: key -> PendingMessage
  pl_delivered,    \* [p] PerfectLink::_delivered: set of <<process_id, seq_nr>>
  pl_net,          \* datagrams handed to sendto and not yet received or lost
  pl_thread,       \* [p][t] position of thread t inside PerfectLink::send
  pl_callbacks,    \* [p] the invocations of the listen callback, in order
  pl_sent          \* history: the send calls made so far

plVars == <<pl_seq_nr, pl_pending, pl_delivered, pl_net, pl_thread,
            pl_callbacks, pl_sent>>

VARIABLES
  la_n,             \* _link.processes().size()
  la_max_unique_values, \* LatticeAgreement::_max_unique_values
  la_agreement_nr,  \* [i] LatticeAgreement::_agreement_nr
  la_semaphore,     \* [i] the count of LatticeAgreement::_send_semaphore
  la_agreements,    \* [i] LatticeAgreement::_agreements: agreement_nr -> Agreement
  la_net,           \* messages handed to the link and not yet delivered
  la_crashed,       \* the processes that crashed
  la_decisions,     \* [i] history: the invocations of the decision callback
  la_inputs,        \* [i] history: agreement_nr -> the values passed to propose
  la_asserts        \* history: the assertions that failed

laVars == <<la_n, la_max_unique_values, la_agreement_nr, la_semaphore, la_agreements, la_net,
            la_crashed, la_decisions, la_inputs, la_asserts>>

VARIABLES
  urb_n,              \* _link.processes().size()
  urb_seq_nr,         \* [p] UniformReliableBroadcast::_seq_nr
  urb_semaphore,      \* [p] the count of UniformReliableBroadcast::_send_semaphore
  urb_acknowledged,   \* [p] _acknowledged: message_id -> the bits that are set
  urb_callbacks,      \* [p] the invocations of the delivery callback, in order
  urb_thread,         \* [p][t] position of thread t inside _link.broadcast
  urb_link_seq_nr,    \* [p] PerfectLink::_seq_nr of the link below
  urb_link_delivered, \* [p] PerfectLink::_delivered of the link below
  urb_net,            \* datagrams sent and not yet taken by their destination
  urb_crashed,        \* the processes that crashed
  urb_uninit,         \* the value the bytes broadcast never writes hold
  urb_broadcasts,     \* history: the broadcast calls made so far
  urb_asserts         \* history: the assertions that failed

urbVars == <<urb_n, urb_seq_nr, urb_semaphore, urb_acknowledged, urb_callbacks,
             urb_thread, urb_link_seq_nr, urb_link_delivered, urb_net,
             urb_crashed, urb_uninit, urb_broadcasts, urb_asserts>>

VARIABLES
  fifo_buffered,   \* [process_id] FifoBroadcast::_buffered: next_seq_nr, buffer
  fifo_callbacks,  \* the invocations of the FifoBroadcast callback, in order
  fifo_urb         \* history: the deliveries of the broadcast layer, in order

fifoVars == <<fifo_buffered, fifo_callbacks, fifo_urb>>

VARIABLES
  api_sock_fd,     \* PerfectLink::_sock_fd: <<>> (nullopt) or <<the socket>>
  api_seq_nr,      \* PerfectLink::_seq_nr
  api_pending,     \* PerfectLink::_pending_for_ack
  api_delivered,   \* PerfectLink::_delivered
  api_listening,   \* the receive loop has been started
  api_net,         \* datagrams handed to sendto and not yet received
  api_callbacks,   \* the invocations of the listen callback, in order
  api_calls,       \* history: the number of calls that returned so far
  api_last_call,   \* history: the last call, its arguments and its outcome
  api_thrown       \* history: the exceptions thrown so far

apiVars == <<api_sock_fd, api_seq_nr, api_pending, api_delivered, api_listening,
             api_net, api_callbacks, api_calls, api_last_call, api_thrown>>

VARIABLES
  lk_stack,      \* the front end the process runs: "LA" or "URB"
  lk_pc,         \* [t] position of thread t: the step it is at, the steps to come
  lk_held,       \* [t] the mutexes thread t holds
  lk_count,      \* Semaphore::_count of _send_semaphore
  lk_waiting,    \* the threads blocked in _cv.wait
  lk_signalled,  \* the threads _cv.notify_one has woken and that did not run yet
  lk_open,       \* the agreements proposed (broadcasts made) and not yet decided (delivered)
  lk_calls,      \* history: the propose or broadcast calls made so far
  lk_acquired,   \* history: the acquire calls that returned
  lk_released,   \* history: the release calls that raised the count
  lk_woken       \* history: the times a thread left _cv.wait

lockVars == <<lk_stack, lk_pc, lk_held, lk_count, lk_waiting, lk_signalled,
              lk_open, lk_calls, lk_acquired, lk_released, lk_woken>>

\* hpp _prepare_message: message[i + 1] = (seq_nr >> (8 * i)) & 0xff
EncodeSeqNr(seq_nr) ==
  [i \in 1 .. SeqBytes |-> (seq_nr \div (ByteRange ^ (i - 1))) % ByteRange]

\* cpp _prepare_message (used by listen for the ACK):
\* message[i + 1] = (seq_nr << (8 * i)) & 0xff
\* The low byte of a product is the low byte of the product of the low
\* bytes, so the shift is reduced modulo 256 factor by factor.
EncodeSeqNrAck(seq_nr) ==
  [i \in 1 .. SeqBytes |->
     ((seq_nr % ByteRange) * ((ByteRange ^ (i - 1)) % ByteRange)) % ByteRange]

\* cpp _decode_message: seq_nr |= message[i + 1] << (8 * i)
DecodeSeqNr(bytes) ==
  LET RECURSIVE Sum(_)
      Sum(i) == IF i > SeqBytes THEN 0
                ELSE bytes[i] * (ByteRange ^ (i - 1)) + Sum(i + 1)
  IN Sum(1)

\* hpp _prepare_message with is_ack = false: the datagram of a send call.
\* "call" is history only: it names the send call the datagram belongs to
\* (0: none, an ACK).
PrepareMessage(id, seq_nr, data, call) ==
  [is_ack |-> 0, seq |-> EncodeSeqNr(seq_nr), process_id |-> id % ByteRange,
   data |-> data, call |-> call]

\* cpp listen, "send an ACK": _prepare_message(seq_nr, nullptr, 0, true).
PrepareAck(id, seq_nr) ==
  [is_ack |-> 1, seq |-> EncodeSeqNrAck(seq_nr), process_id |-> id % ByteRange,
   data |-> "", call |-> 0]

\* cpp listen: "if (is_ack)".
MutIsAckNever(message) == FALSE
IsAck(message) == message.is_ack # 0

\* cpp listen: _delivered.find({process_id, seq_nr}) == _delivered.end().
MutNotYetDeliveredAlways(p, process_id, seq_nr) == TRUE
NotYetDelivered(p, process_id, seq_nr) ==
  <<process_id, seq_nr>> \notin pl_delivered[p]

\* The state of a thread that is not inside send.
PLIdle == [at |-> "idle"]

PLInit ==
  /\ pl_seq_nr = [p \in PLProcs |-> InitialSeqNr]
  /\ pl_pending = [p \in PLProcs |-> EmptyMap]
  /\ pl_delivered = [p \in PLProcs |-> {}]
  /\ pl_net = {}
  /\ pl_thread = [p \in PLProcs |-> [t \in PLThreads |-> PLIdle]]
  /\ pl_callbacks = [p \in PLProcs |-> <<>>]
  /\ pl_sent = {}

\* A link that has been running for a while: _seq_nr is 256 at a process
\* after 255 send calls (to processes outside PLProcs), the first value whose
\* encoding needs a second byte.
PLInitLate ==
  /\ pl_seq_nr \in [PLProcs -> {InitialSeqNr, ByteRange}]
  /\ pl_pending = [p \in PLProcs |-> EmptyMap]
  /\ pl_delivered = [p \in PLProcs |-> {}]
  /\ pl_net = {}
  /\ pl_thread = [p \in PLProcs |-> [t \in PLThreads |-> PLIdle]]
  /\ pl_callbacks = [p \in PLProcs |-> <<>>]
  /\ pl_sent = {}

\* send, first half: _prepare_message(_seq_nr, false, metadata, datas...).
\* _seq_nr is read here without _pending_for_ack_mutex.
SendPrepare(p, t, dst, data) ==
  /\ pl_thread[p][t].at = "idle"
  /\ Cardinality(pl_sent) < MaxSends
  /\ LET call == Cardinality(pl_sent) + 1
         message == PrepareMessage(p, pl_seq_nr[p], data, call)
     IN /\ pl_thread' = [pl_thread EXCEPT ![p][t] =
                           [at |-> "prepared", addr |-> dst, message |-> message]]
        /\ pl_sent' = pl_sent \cup
                        {[call |-> call, src |-> p, dst |-> dst, data |-> data,
                          seq |-> message.seq]}
  /\ UNCHANGED <<pl_seq_nr, pl_pending, pl_delivered, pl_net, pl_callbacks, laVars, urbVars, fifoVars, apiVars, lockVars>>

\* send, second half: under the lock try_emplace(_seq_nr, addr, message)
\* and _seq_nr += 1; then sendto.
SendCommit(p, t) ==
  /\ pl_thread[p][t].at = "prepared"
  /\ LET st == pl_thread[p][t]
     IN /\ pl_pending' = [pl_pending EXCEPT ![p] =
                            TryEmplace(@, pl_seq_nr[p],
                                       [addr |-> st.addr, message |-> st.message])]
        /\ pl_seq_nr' = [pl_seq_nr EXCEPT ![p] = @ + 1]
        /\ pl_net' = pl_net \cup {[to |-> st.addr, from |-> p, message |-> st.message]}
  /\ pl_thread' = [pl_thread EXCEPT ![p][t] = PLIdle]
  /\ UNCHANGED <<pl_delivered, pl_callbacks, pl_sent, laVars, urbVars, fifoVars, apiVars, lockVars>>

\* listen, recvfrom timed out (EAGAIN): resend every pending message.
Timeout(p) ==
  /\ DOMAIN pl_pending[p] # {}
  /\ pl_net' = pl_net \cup
       {[to |-> pl_pending[p][k].addr, from |-> p,
         message |-> pl_pending[p][k].message] : k \in DOMAIN pl_pending[p]}
  /\ UNCHANGED <<pl_seq_nr, pl_pending, pl_delivered, pl_thread, pl_callbacks,
                 pl_sent, laVars, urbVars, fifoVars, apiVars, lockVars>>

\* listen, recvfrom returned datagram d, which decodes to an ACK:
\* _pending_for_ack.erase(seq_nr).
ReceiveAck(p, d) ==
  /\ d \in pl_net /\ d.to = p
  /\ IsAck(d.message)
  /\ pl_net' = pl_net \ {d}
  /\ pl_pending' = [pl_pending EXCEPT ![p] = Erase(@, DecodeSeqNr(d.message.seq))]
  /\ UNCHANGED <<pl_seq_nr, pl_delivered, pl_thread, pl_callbacks, pl_sent, laVars, urbVars, fifoVars, apiVars, lockVars>>

\* listen, recvfrom returned datagram d, which is not an ACK: the callback
\* and the insertion into _delivered when the pair is new, and in either
\* case an ACK to the source address.
ReceiveData(p, d) ==
  /\ d \in pl_net /\ d.to = p
  /\ ~IsAck(d.message)
  /\ LET seq_nr == DecodeSeqNr(d.message.seq)
         process_id == d.message.process_id
         ack == [to |-> d.from, from |-> p, message |-> PrepareAck(p, seq_nr)]
     IN /\ IF NotYetDelivered(p, process_id, seq_nr)
           THEN /\ pl_callbacks' = [pl_callbacks EXCEPT ![p] =
                     Append(@, [process_id |-> process_id, seq_nr |-> seq_nr,
                                data |-> d.message.data, call |-> d.message.call])]
                /\ pl_delivered' = [pl_delivered EXCEPT ![p] =
                                      @ \cup {<<process_id, seq_nr>>}]
           ELSE UNCHANGED <<pl_callbacks, pl_delivered>>
        /\ pl_net' = (pl_net \ {d}) \cup {ack}
  /\ UNCHANGED <<pl_seq_nr, pl_pending, pl_thread, pl_sent, laVars, urbVars, fifoVars, apiVars, lockVars>>

\* The network loses a datagram.
Lose(d) ==
  /\ d \in pl_net
  /\ pl_net' = pl_net \ {d}
  /\ UNCHANGED <<pl_seq_nr, pl_pending, pl_delivered, pl_thread, pl_callbacks,
                 pl_sent, laVars, urbVars, fifoVars, apiVars, lockVars>>

PLNext ==
  \/ \E p \in PLProcs, t \in PLThreads, dst \in PLProcs, data \in PLPayloads :
       SendPrepare(p, t, dst, data)
  \/ \E p \in PLProcs, t \in PLThreads : SendCommit(p, t)
  \/ \E p \in PLProcs : Timeout(p)
  \/ \E p \in PLProcs : \E d \in pl_net : ReceiveAck(p, d)
  \/ \E p \in PLProcs : \E d \in pl_net : ReceiveData(p, d)
  \/ \E d \in pl_net : Lose(d)

(***************************************************************************)
(* LATTICE AGREEMENT                                                       *)
(***************************************************************************)

\* The group sizes N explored: the membership map holds processes 1 .. N.
LASizes == {1, 2, 3}

LAProcs == UNION {1 .. n : n \in LASizes}

\* Bound: the values a propose call may pass are 1 .. NumValues.
NumValues == 2

LAValues == 1 .. NumValues

\* LatticeAgreement::_max_unique_values: the configured upper bound on the
\* number of distinct values over all proposals of one agreement, the same
\* at every process.
MaxUniqueValues == la_max_unique_values

\* Bound: the number of propose calls of one run, over all processes.
MaxProposals == 2

\* Bound: the number of processes that crash in one run.
MaxCrashes == 1

\* LatticeAgreement::MAX_IN_FLIGHT
LAMaxInFlight == 1

\* enum class MessageKind
Proposal == 0
Ack == 1
Nack == 2

\* The little-endian encoding of a 32-bit number in the LA messages:
\* data[size++] = (x >> (8 * i)) & 0xff
EncodeUint32(x) ==
  [i \in 1 .. SeqBytes |-> (x \div (ByteRange ^ (i - 1))) % ByteRange]

\* x |= data[offset++] << (8 * i)
MutDecodeUint32Zero(bytes) == 0
DecodeUint32(bytes) ==
  LET RECURSIVE Sum(_)
      Sum(i) == IF i > SeqBytes THEN 0
                ELSE bytes[i] * (ByteRange ^ (i - 1)) + Sum(i + 1)
  IN Sum(1)

\* struct Agreement, as try_emplace constructs it.
NewAgreement ==
  [ack_count |-> 0, nack_count |-> 0, proposed_value |-> {},
   accepted_value |-> {}, proposal_nr |-> 0, has_decided |-> FALSE]

\* An LA message as handed to the link: the payload bytes and, from the
\* datagram header, the sender.
LAMessage(from, to, kind, agreement_nr, proposal_nr, values) ==
  [from |-> from, to |-> to, kind |-> kind,
   agreement_nr |-> EncodeUint32(agreement_nr),
   proposal_nr |-> EncodeUint32(proposal_nr),
   values |-> {EncodeUint32(v) : v \in values}]

\* BestEffortBroadcast::broadcast: one PerfectLink::send per process of the
\* membership map, the caller included.
BroadcastTargets(n) == 1 .. n

\* _broadcast_proposal: the Proposal messages of one broadcast.
BroadcastProposal(i, agreement, agreement_nr) ==
  {LAMessage(i, to, Proposal, agreement_nr, agreement.proposal_nr,
             agreement.proposed_value) : to \in BroadcastTargets(la_n)}

\* _handle_ack: "2 * ack_count >= _link.processes().size()".
MutCanDecideOnFirstAck(ack_count, n) == ack_count >= 1
CanDecide(ack_count, n) == 2 * ack_count >= n

MutNeedsNewProposalAlways(agreement, n) == TRUE
\* _check_nacks: "2 * (ack_count + nack_count) >= _link.processes().size()".
NeedsNewProposal(agreement, n) ==
  2 * (agreement.ack_count + agreement.nack_count) >= n

MutAgreementNrKept(agreement_nr) == agreement_nr
\* propose: "_agreement_nr += 1".
NextAgreementNr(agreement_nr) == agreement_nr + 1

MutReplyTargetNext(i, process_id) == (i % la_n) + 1
\* _handle_proposal: "auto target = processes.find(process_id)", the process
\* the Proposal came from.
ReplyTarget(i, process_id) == process_id

\* Semaphore::acquire, once "_count > 0" holds: "_count -= 1".
Acquire(count) == count - 1

MutReleaseNothing(count) == count
\* Semaphore::release: "_count += 1".
Release(count) == count + 1

MutIsFullNever(proposed_value) == FALSE
\* propose, _handle_nack and _decide:
\* "agreement.proposed_value.size() == _max_unique_values".
IsFull(proposed_value) == Cardinality(proposed_value) = MaxUniqueValues

\* _decide, the fields it writes: has_decided, and accepted_value when the
\* full set was decided.
MutDecideLeavesUndecided(agreement) == agreement
Decide(agreement) ==
  [agreement EXCEPT
     !.has_decided = TRUE,
     !.accepted_value =
        IF IsFull(agreement.proposed_value)
        THEN @ \cup agreement.proposed_value ELSE @]

\* _check_nacks, the fields it writes when a new round starts.
NextProposal(agreement) ==
  [agreement EXCEPT !.proposal_nr = @ + 1, !.ack_count = 0, !.nack_count = 0]

\* _handle_proposal: difference = accepted_value minus the values read.
MutDifferenceAll(accepted_value, values) == accepted_value
Difference(accepted_value, values) == accepted_value \ values

\* _handle_ack, _handle_nack:
\* "if (agreement.has_decided || agreement.proposal_nr != proposal_nr) return"
MutIgnoredStaleOnly(agreement, proposal_nr) == agreement.proposal_nr # proposal_nr
MutIgnoredDecidedOnly(agreement, proposal_nr) == agreement.has_decided
Ignored(agreement, proposal_nr) ==
  agreement.has_decided \/ agreement.proposal_nr # proposal_nr

\* _handle_proposal: accepted_value.insert(value) for every value read.
MutAcceptNothing(accepted_value, values) == accepted_value
InsertProposalValues(accepted_value, values) == accepted_value \cup values

\* _handle_nack: proposed_value.insert(value) for every value read.
MutNackInsertsNothing(proposed_value, values) == proposed_value
MutNackAddsAnyValue(proposed_value, values) == proposed_value \cup values \cup {0}
InsertNackValues(proposed_value, values) == proposed_value \cup values

\* The fields of every LatticeAgreement object after construction.
LAFields ==
  /\ la_agreement_nr = [i \in LAProcs |-> 0]
  /\ la_semaphore = [i \in LAProcs |-> LAMaxInFlight]
  /\ la_agreements = [i \in LAProcs |-> EmptyMap]
  /\ la_net = {}
  /\ la_crashed = {}
  /\ la_decisions = [i \in LAProcs |-> <<>>]
  /\ la_inputs = [i \in LAProcs |-> EmptyMap]
  /\ la_asserts = {}

\* A group of any of the sizes explored, configured with the number of
\* distinct values the propose calls can pass.
LAInit ==
  /\ la_n \in LASizes
  /\ la_max_unique_values = NumValues
  /\ LAFields

\* The propose calls made so far: every call adds one to _agreement_nr.
LAProposeCalls ==
  LET RECURSIVE Sum(_)
      Sum(i) == IF i = 0 THEN 0 ELSE la_agreement_nr[i] + Sum(i - 1)
  IN Sum(Cardinality(LAProcs))

LAAlive(i) == i \in 1 .. la_n /\ i \notin la_crashed

\* The decision callback is invoked with proposed_value (history).
RecordDecision(i, agreement_nr, agreement) ==
  la_decisions' = [la_decisions EXCEPT ![i] =
     Append(@, [agreement_nr |-> agreement_nr, values |-> agreement.proposed_value])]

\* LatticeAgreement::propose(values)
ProposeCall(i, values) ==
  /\ LAAlive(i)
  /\ la_semaphore[i] > 0
  /\ LET nr == la_agreement_nr[i]
         old == TryEmplace(la_agreements[i], nr, NewAgreement)[nr]
         agreement == [old EXCEPT !.proposed_value = @ \cup values]
     IN /\ la_inputs' = [la_inputs EXCEPT ![i] = TryEmplace(@, nr, values)]
        /\ IF IsFull(agreement.proposed_value)
           THEN /\ RecordDecision(i, nr, agreement)
                /\ la_agreements' = [la_agreements EXCEPT ![i] =
                      Put(@, nr, Decide(agreement))]
                /\ la_semaphore' = [la_semaphore EXCEPT ![i] = Release(Acquire(@))]
                /\ UNCHANGED la_net
           ELSE /\ la_agreements' = [la_agreements EXCEPT ![i] =
                      Put(@, nr, agreement)]
                /\ la_net' = la_net \cup BroadcastProposal(i, agreement, nr)
                /\ la_semaphore' = [la_semaphore EXCEPT ![i] = Acquire(@)]
                /\ UNCHANGED la_decisions
  /\ la_agreement_nr' = [la_agreement_nr EXCEPT ![i] = NextAgreementNr(@)]
  /\ UNCHANGED <<la_n, la_max_unique_values, la_crashed, la_asserts, plVars, urbVars, fifoVars, apiVars, lockVars>>

\* A propose call of a run in which the processes propose any values.
Propose(i, values) ==
  /\ LAProposeCalls < MaxProposals
  /\ ProposeCall(i, values)

\* listen, MessageKind::Proposal: _handle_proposal.  The values are read from
\* data.subslice(offset), whose assertion "start < _size" fails on a Proposal
\* that carries no value; with assertions compiled out the slice is empty.
HandleProposal(i, m) ==
  LET agreement_nr == DecodeUint32(m.agreement_nr)
      proposal_nr == DecodeUint32(m.proposal_nr)
      values == {DecodeUint32(v) : v \in m.values}
      old == TryEmplace(la_agreements[i], agreement_nr, NewAgreement)[agreement_nr]
      difference == Difference(old.accepted_value, values)
      agreement == [old EXCEPT !.accepted_value = InsertProposalValues(@, values)]
      reply == LAMessage(i, ReplyTarget(i, m.from), IF difference # {} THEN Nack ELSE Ack,
                         agreement_nr, proposal_nr, difference)
  IN /\ la_agreements' = [la_agreements EXCEPT ![i] = Put(@, agreement_nr, agreement)]
     /\ la_net' = (la_net \ {m}) \cup {reply}
     /\ la_asserts' = la_asserts \cup
          (IF m.values = {} THEN {"start < _size"} ELSE {}) \cup
          (IF m.from \in 1 .. la_n THEN {} ELSE {"target != processes.end()"})
     /\ UNCHANGED <<la_semaphore, la_decisions>>

\* listen, MessageKind::Ack: _handle_ack.
HandleAck(i, m) ==
  LET agreement_nr == DecodeUint32(m.agreement_nr)
      proposal_nr == DecodeUint32(m.proposal_nr)
  IN IF agreement_nr \notin DOMAIN la_agreements[i]
     THEN /\ la_asserts' = la_asserts \cup {"agreement_entry != _agreements.end()"}
          /\ la_net' = la_net \ {m}
          /\ UNCHANGED <<la_agreements, la_semaphore, la_decisions>>
     ELSE
       LET old == la_agreements[i][agreement_nr]
           counted == [old EXCEPT !.ack_count = (@ + 1) % ByteRange]
       IN /\ UNCHANGED la_asserts
          /\ IF Ignored(old, proposal_nr)
             THEN /\ la_net' = la_net \ {m}
                  /\ UNCHANGED <<la_agreements, la_semaphore, la_decisions>>
             ELSE IF CanDecide(counted.ack_count, la_n)
             THEN /\ RecordDecision(i, agreement_nr, counted)
                  /\ la_agreements' = [la_agreements EXCEPT ![i] =
                        Put(@, agreement_nr, Decide(counted))]
                  /\ la_semaphore' = [la_semaphore EXCEPT ![i] = Release(@)]
                  /\ la_net' = la_net \ {m}
             ELSE IF NeedsNewProposal(counted, la_n)
             THEN /\ la_agreements' = [la_agreements EXCEPT ![i] =
                        Put(@, agreement_nr, NextProposal(counted))]
                  /\ la_net' = (la_net \ {m}) \cup
                        BroadcastProposal(i, NextProposal(counted), agreement_nr)
                  /\ UNCHANGED <<la_semaphore, la_decisions>>
             ELSE /\ la_agreements' = [la_agreements EXCEPT ![i] =
                        Put(@, agreement_nr, counted)]
                  /\ la_net' = la_net \ {m}
                  /\ UNCHANGED <<la_semaphore, la_decisions>>

\* listen, MessageKind::Nack: _handle_nack.
HandleNack(i, m) ==
  LET agreement_nr == DecodeUint32(m.agreement_nr)
      proposal_nr == DecodeUint32(m.proposal_nr)
      values == {DecodeUint32(v) : v \in m.values}
  IN IF agreement_nr \notin DOMAIN la_agreements[i]
     THEN /\ la_asserts' = la_asserts \cup {"agreement_entry != _agreements.end()"}
          /\ la_net' = la_net \ {m}
          /\ UNCHANGED <<la_agreements, la_semaphore, la_decisions>>
     ELSE
       LET old == la_agreements[i][agreement_nr]
           counted == [old EXCEPT
                         !.proposed_value = InsertNackValues(@, values),
                         !.nack_count = (@ + 1) % ByteRange]
       IN /\ UNCHANGED la_asserts
          /\ IF Ignored(old, proposal_nr)
             THEN /\ la_net' = la_net \ {m}
                  /\ UNCHANGED <<la_agreements, la_semaphore, la_decisions>>
             ELSE IF IsFull(counted.proposed_value)
             THEN /\ RecordDecision(i, agreement_nr, counted)
                  /\ la_agreements' = [la_agreements EXCEPT ![i] =
                        Put(@, agreement_nr, Decide(counted))]
                  /\ la_semaphore' = [la_semaphore EXCEPT ![i] = Release(@)]
                  /\ la_net' = la_net \ {m}
             ELSE IF NeedsNewProposal(counted, la_n)
             THEN /\ la_agreements' = [la_agreements EXCEPT ![i] =
                        Put(@, agreement_nr, NextProposal(counted))]
                  /\ la_net' = (la_net \ {m}) \cup
                        BroadcastProposal(i, NextProposal(counted), agreement_nr)
                  /\ UNCHANGED <<la_semaphore, la_decisions>>
             ELSE /\ la_agreements' = [la_agreements EXCEPT ![i] =
                        Put(@, agreement_nr, counted)]
                  /\ la_net' = la_net \ {m}
                  /\ UNCHANGED <<la_semaphore, la_decisions>>

\* The link hands message m to the listen callback of its destination
\* (once: the perfect link drops repeated receipts of a datagram).
LADeliver(m) ==
  /\ m \in la_net
  /\ LAAlive(m.to)
  /\ CASE m.kind = Proposal -> HandleProposal(m.to, m)
       [] m.kind = Ack -> HandleAck(m.to, m)
       [] m.kind = Nack -> HandleNack(m.to, m)
  /\ UNCHANGED <<la_n, la_max_unique_values, la_agreement_nr, la_crashed, la_inputs, plVars, urbVars, fifoVars, apiVars, lockVars>>

\* Process i crashes: it takes no further step.
LACrash(i) ==
  /\ LAAlive(i)
  /\ Cardinality(la_crashed) < MaxCrashes
  /\ la_crashed' = la_crashed \cup {i}
  /\ UNCHANGED <<la_n, la_max_unique_values, la_agreement_nr, la_semaphore,
                 la_agreements, la_net, la_decisions, la_inputs, la_asserts,
                 plVars, urbVars, fifoVars, apiVars, lockVars>>

LANext ==
  \/ \E i \in LAProcs, values \in SUBSET LAValues : Propose(i, values)
  \/ \E m \in la_net : LADeliver(m)
  \/ \E i \in LAProcs : LACrash(i)

\* Scenario S5: three processes; process 1 proposes {10, 20}, processes 2
\* and 3 propose the empty set, all for agreement 0.
S5Procs == 1 .. 3

S5Inputs == [i \in S5Procs |-> IF i = 1 THEN {10, 20} ELSE {}]

\* S5 is run with max_unique_values = 2, the number of distinct values
\* proposed.
LAInitS5 ==
  /\ la_n = Cardinality(S5Procs)
  /\ la_max_unique_values = Cardinality(UNION {S5Inputs[i] : i \in S5Procs})
  /\ LAFields

\* The one propose call process i makes in S5.
ProposeS5(i) ==
  /\ i \in S5Procs
  /\ la_agreement_nr[i] = 0
  /\ ProposeCall(i, S5Inputs[i])

LANextS5 ==
  \/ \E i \in S5Procs : ProposeS5(i)
  \/ \E m \in la_net : LADeliver(m)
  \/ \E i \in S5Procs : LACrash(i)

\* Scenario S6: three processes propose {1}, {2} and {3} for agreement 0,
\* with max_unique_values = 3.
S6Procs == 1 .. 3

\* Bound: the number of lattice-agreement datagrams in flight at one time in
\* the runs of S6 that are explored.
MaxInFlightS6 == 5

S6Inputs == [i \in S6Procs |-> {i}]

LAInitS6 ==
  /\ la_n = Cardinality(S6Procs)
  /\ la_max_unique_values = Cardinality(UNION {S6Inputs[i] : i \in S6Procs})
  /\ LAFields

\* The one propose call process i makes in S6.
ProposeS6(i) ==
  /\ i \in S6Procs
  /\ la_agreement_nr[i] = 0
  /\ ProposeCall(i, S6Inputs[i])

LANextS6 ==
  \/ \E i \in S6Procs : ProposeS6(i) /\ Cardinality(la_net') <= MaxInFlightS6
  \/ \E m \in la_net : LADeliver(m) /\ Cardinality(la_net') <= MaxInFlightS6
  \/ \E i \in S6Procs : LACrash(i)

(***************************************************************************)
(* UNIFORM RELIABLE BROADCAST                                              *)
(***************************************************************************)

\* The group sizes N explored.
URBSizes == {1, 2, 3}

URBProcs == UNION {1 .. n : n \in URBSizes}

\* The payload batches handed to broadcast (datas...).
URBDatas == {<<"m">>}

\* Bound: the number of datagrams the broadcast calls of one run cause.
MaxDatagrams == 9

\* UniformReliableBroadcast::INITIAL_SEQ_NR
UrbInitialSeqNr == 1

\* UniformReliableBroadcast::MAX_IN_FLIGHT
UrbMaxInFlight == 1

\* sizeof(UniformReliableBroadcast::MessageIdType)
MessageIdBytes == 8

\* sizeof(PerfectLink::ProcessIdType)
ProcessIdBytes == 1

\* broadcast writes bytes 0 .. 4 of message_id_data and leaves bytes 5 .. 7
\* of the array uninitialised: the values such a byte may hold (the value
\* left on the stack is drawn once for a run).
UninitBytes == {0, 1}

\* The datagrams one broadcast call causes in a group of n: one per process
\* from the broadcaster and from every process that echoes (the other
\* processes, and the broadcaster when the uninitialised bytes are not 0).
DatagramsOf(n, uninit) == n * (IF uninit = 0 THEN n ELSE n + 1)

\* The threads that call PerfectLink::send of one process: the thread that
\* calls broadcast and the thread that runs listen (main.cpp).
URBThreads == {"user", "listener"}

\* broadcast: message_id_data, the metadata of the datagrams.
MessageIdData(id, seq_nr, uninit) ==
  [i \in 1 .. MessageIdBytes |->
     IF i <= ProcessIdBytes
     THEN (id \div (ByteRange ^ (i - 1))) % ByteRange
     ELSE IF i <= ProcessIdBytes + SeqBytes
     THEN (seq_nr \div (ByteRange ^ (i - 1 - ProcessIdBytes))) % ByteRange
     ELSE uninit]

\* broadcast: message_id, a 64-bit number, written here as its eight bytes,
\* low byte first.  The bytes above the seq_nr stay 0.
MessageId(id, seq_nr) == MessageIdData(id, seq_nr, 0)

\* listen: message_id |= metadata[i] << (8 * i), for all eight bytes.
DecodeMessageId(metadata) == metadata

\* listen: author_id = message_id & numeric_limits<ProcessIdType>::max().
MutAuthorIdSecondByte(message_id) == message_id[2]
AuthorId(message_id) == message_id[1]

\* listen: acks.count() == _link.processes().size() / 2 + 1
MutAtLeastMajority(count, n) == count >= (n \div 2) + 1
IsMajority(count, n) == count = (n \div 2) + 1

\* listen: had_acked = acks[process_id - 1]
HadAcked(acks, process_id) == process_id \in acks

\* BestEffortBroadcast::broadcast: "for (const auto& [_, address] :
\* _processes)".  Every process fills the map from the same hosts file, so
\* the iteration order is the same everywhere; the processes are numbered
\* in that order.
BroadcastOrder(n) == [k \in 1 .. n |-> k]

URBIdle == [at |-> "idle"]

\* A thread inside BestEffortBroadcast::broadcast, before the send call for
\* the first process of targets.
Broadcasting(targets, metadata, datas) ==
  IF targets = <<>> THEN URBIdle
  ELSE [at |-> "send", targets |-> targets, metadata |-> metadata,
        datas |-> datas]

URBInit ==
  /\ urb_n \in URBSizes
  /\ urb_seq_nr = [p \in URBProcs |-> UrbInitialSeqNr]
  /\ urb_semaphore = [p \in URBProcs |-> UrbMaxInFlight]
  /\ urb_acknowledged = [p \in URBProcs |-> EmptyMap]
  /\ urb_callbacks = [p \in URBProcs |-> <<>>]
  /\ urb_thread = [p \in URBProcs |-> [t \in URBThreads |-> URBIdle]]
  /\ urb_link_seq_nr = [p \in URBProcs |-> InitialSeqNr]
  /\ urb_link_delivered = [p \in URBProcs |-> {}]
  /\ urb_net = {}
  /\ urb_crashed = {}
  /\ urb_uninit \in UninitBytes
  /\ urb_broadcasts = {}
  /\ urb_asserts = {}

URBAlive(p) == p \in 1 .. urb_n /\ p \notin urb_crashed

\* UniformReliableBroadcast::broadcast(datas...), up to the call of
\* _link.broadcast.
UrbBroadcast(p, datas) ==
  /\ URBAlive(p)
  /\ urb_thread[p]["user"].at = "idle"
  /\ (Cardinality(urb_broadcasts) + 1) * DatagramsOf(urb_n, urb_uninit)
       <= MaxDatagrams
  /\ urb_semaphore[p] > 0
  /\ LET message_id == MessageId(p, urb_seq_nr[p])
         message_id_data == MessageIdData(p, urb_seq_nr[p], urb_uninit)
     IN   /\ urb_acknowledged' = [urb_acknowledged EXCEPT ![p] =
                TryEmplace(@, message_id, {})]
          /\ urb_thread' = [urb_thread EXCEPT ![p]["user"] =
                Broadcasting(BroadcastOrder(urb_n), message_id_data, datas)]
          /\ urb_broadcasts' = urb_broadcasts \cup
                {[author |-> p, metadata |-> message_id_data, datas |-> datas]}
  /\ urb_semaphore' = [urb_semaphore EXCEPT ![p] = @ - 1]
  /\ urb_seq_nr' = [urb_seq_nr EXCEPT ![p] = @ + Len(datas)]
  /\ UNCHANGED <<urb_n, urb_uninit, urb_callbacks, urb_link_seq_nr, urb_link_delivered,
                 urb_net, urb_crashed, urb_asserts, plVars, laVars, fifoVars, apiVars, lockVars>>

\* Another thread of process p is inside BestEffortBroadcast::broadcast.
OtherThreadSending(p, t) ==
  \E u \in URBThreads \ {t} : urb_thread[p][u].at # "idle"

\* The effect of the second half of PerfectLink::send by thread t, whose
\* header carries seq: "_seq_nr += 1" under _pending_for_ack_mutex, sendto,
\* and the return to the loop of BestEffortBroadcast::broadcast.
LinkCommit(p, t, seq) ==
  LET th == urb_thread[p][t]
  IN /\ urb_net' = urb_net \cup
          {[from |-> p % ByteRange, to |-> Head(th.targets), seq |-> seq,
            metadata |-> th.metadata, datas |-> th.datas]}
     /\ urb_thread' = [urb_thread EXCEPT ![p][t] =
          Broadcasting(Tail(th.targets), th.metadata, th.datas)]
     /\ urb_link_seq_nr' = [urb_link_seq_nr EXCEPT ![p] = @ + 1]
     /\ UNCHANGED <<urb_n, urb_uninit, urb_seq_nr, urb_semaphore, urb_acknowledged,
                    urb_callbacks, urb_link_delivered, urb_crashed,
                    urb_broadcasts, urb_asserts, plVars, laVars, fifoVars, apiVars, lockVars>>

\* PerfectLink::send called by thread t while no other thread of the process
\* is inside a broadcast: _prepare_message and the locked block read the
\* same _seq_nr, and the call is taken in one step.
LinkSend(p, t) ==
  /\ URBAlive(p)
  /\ urb_thread[p][t].at = "send"
  /\ ~OtherThreadSending(p, t)
  /\ LinkCommit(p, t, EncodeSeqNr(urb_link_seq_nr[p]))

\* PerfectLink::send called by thread t while another thread is inside a
\* broadcast, first half: _prepare_message(_seq_nr, false, metadata,
\* datas...), which reads _seq_nr without _pending_for_ack_mutex.
LinkSendPrepare(p, t) ==
  /\ URBAlive(p)
  /\ urb_thread[p][t].at = "send"
  /\ OtherThreadSending(p, t)
  /\ urb_thread' = [urb_thread EXCEPT ![p][t] =
        [@ EXCEPT !.at = "prepared"] @@
        [seq |-> EncodeSeqNr(urb_link_seq_nr[p])]]
  /\ UNCHANGED <<urb_n, urb_uninit, urb_seq_nr, urb_semaphore, urb_acknowledged,
                 urb_callbacks, urb_link_seq_nr, urb_link_delivered, urb_net,
                 urb_crashed, urb_broadcasts, urb_asserts, plVars, laVars, fifoVars, apiVars, lockVars>>

\* PerfectLink::send, second half, with the header prepared before.
LinkSendCommit(p, t) ==
  /\ URBAlive(p)
  /\ urb_thread[p][t].at = "prepared"
  /\ LinkCommit(p, t, urb_thread[p][t].seq)

\* The callback invocations of one delivery: callback(author_id, owned) for
\* every data of datas.  message_id is history: the BroadcastId delivered.
DeliverBatch(message_id, datas) ==
  [k \in 1 .. Len(datas) |->
     [author_id |-> AuthorId(message_id), data |-> datas[k],
      message_id |-> message_id, index |-> k]]

\* PerfectLink::listen_batch: the datagram of process_id with seq_nr is
\* already in the _delivered set of p, so the batch callback is not invoked
\* for it (the rule PerfectLink::listen applies to <<process_id, seq_nr>>).
AlreadyDelivered(p, process_id, seq_nr) ==
  <<process_id, seq_nr>> \in urb_link_delivered[p]

\* The receive loop of process p takes datagram d.  The link hands it to the
\* listen_batch callback unless {process_id, seq_nr} was delivered before;
\* the sender retransmits a datagram until it is acknowledged, so d stays in
\* flight until p takes it.  The callback is the lambda of
\* UniformReliableBroadcast::listen.
UrbListen(p, d) ==
  /\ d \in urb_net
  /\ d.to = p
  /\ URBAlive(p)
  /\ urb_thread[p]["listener"].at = "idle"
  /\ urb_net' = urb_net \ {d}
  /\ LET process_id == d.from
         seq_nr == DecodeSeqNr(d.seq)
     IN IF AlreadyDelivered(p, process_id, seq_nr)
        THEN UNCHANGED <<urb_link_delivered, urb_acknowledged, urb_semaphore,
                         urb_callbacks, urb_thread, urb_asserts>>
        ELSE
          LET message_id == DecodeMessageId(d.metadata)
              should_broadcast == message_id \notin DOMAIN urb_acknowledged[p]
              old == TryEmplace(urb_acknowledged[p], message_id, {})[message_id]
              had_acked == HadAcked(old, process_id)
              acks == old \cup {process_id}
              should_deliver ==
                ~had_acked /\ IsMajority(Cardinality(acks), urb_n)
          IN /\ urb_link_delivered' = [urb_link_delivered EXCEPT ![p] =
                   @ \cup {<<process_id, seq_nr>>}]
             /\ urb_acknowledged' = [urb_acknowledged EXCEPT ![p] =
                   Put(@, message_id, acks)]
             /\ urb_semaphore' = [urb_semaphore EXCEPT ![p] =
                   IF should_deliver /\ AuthorId(message_id) = p % ByteRange
                   THEN @ + 1 ELSE @]
             /\ urb_callbacks' = [urb_callbacks EXCEPT ![p] =
                   IF should_deliver
                   THEN @ \o DeliverBatch(message_id, d.datas) ELSE @]
             /\ urb_asserts' = urb_asserts \cup
                   (IF should_deliver /\ should_broadcast
                    THEN {"should not need to broadcast when delivering"}
                    ELSE {})
             /\ urb_thread' = [urb_thread EXCEPT ![p]["listener"] =
                   IF should_broadcast
                   THEN Broadcasting(BroadcastOrder(urb_n), d.metadata, d.datas)
                   ELSE @]
  /\ UNCHANGED <<urb_n, urb_uninit, urb_seq_nr, urb_link_seq_nr, urb_crashed,
                 urb_broadcasts, plVars, laVars, fifoVars, apiVars, lockVars>>

\* Process p crashes: its threads take no further step.
UrbCrash(p) ==
  /\ URBAlive(p)
  /\ Cardinality(urb_crashed) < MaxCrashes
  /\ urb_crashed' = urb_crashed \cup {p}
  /\ UNCHANGED <<urb_n, urb_uninit, urb_seq_nr, urb_semaphore, urb_acknowledged,
                 urb_callbacks, urb_thread, urb_link_seq_nr,
                 urb_link_delivered, urb_net, urb_broadcasts, urb_asserts,
                 plVars, laVars, fifoVars, apiVars, lockVars>>

URBNext ==
  \/ \E p \in URBProcs, datas \in URBDatas : UrbBroadcast(p, datas)
  \/ \E p \in URBProcs, t \in URBThreads : LinkSend(p, t)
  \/ \E p \in URBProcs, t \in URBThreads : LinkSendPrepare(p, t)
  \/ \E p \in URBProcs, t \in URBThreads : LinkSendCommit(p, t)
  \/ \E d \in urb_net : UrbListen(d.to, d)
  \/ \E p \in URBProcs : UrbCrash(p)

(***************************************************************************)
(* FIFO BROADCAST                                                          *)
(***************************************************************************)

\* The originators whose messages the filter receives.
FifoProcs == 1 .. 2

\* Bound: the number of messages of one originator.
MaxFifoSeq == 3

\* The seq_nr values of the messages of one originator.
FifoSeqNrs == UrbInitialSeqNr .. (UrbInitialSeqNr + MaxFifoSeq - 1)

\* main: the n-th message of a process is the number n in four bytes,
\* msg[i] = (n >> (i * 8)) & 0xff, and n is also its seq_nr.
FifoData(seq_nr) == EncodeUint32(seq_nr)

\* The deliveries the broadcast layer below may make next: it hands every
\* message (originator, seq_nr) to the filter at most once, in any order.
UrbDeliverable ==
  {d \in [process_id : FifoProcs, seq_nr : FifoSeqNrs] :
     \A k \in DOMAIN fifo_urb : fifo_urb[k] # d}

\* struct BufferedMessages, as constructed.
NewBufferedMessages == [next_seq_nr |-> UrbInitialSeqNr, buffer |-> {}]

MutTopGreatest(buffer) == CHOOSE b \in buffer : \A c \in buffer : b.seq_nr >= c.seq_nr
\* std::priority_queue::top with operator< reversed: the least seq_nr.
Top(buffer) == CHOOSE b \in buffer : \A c \in buffer : b.seq_nr <= c.seq_nr

\* if (buffer.next_seq_nr == seq_nr)
MutIsNextAlways(next_seq_nr, seq_nr) == TRUE
IsNext(next_seq_nr, seq_nr) == next_seq_nr = seq_nr

\* for (; !buffer.buffer.empty(); buffer.buffer.pop()): the state of the
\* loop is the buffer, next_seq_nr and the callbacks made so far.
RECURSIVE Drain(_, _)
Drain(process_id, st) ==
  IF st.buffer = {} THEN st
  ELSE LET top == Top(st.buffer)
       IN IF top.seq_nr # st.next_seq_nr THEN st
          ELSE Drain(process_id,
                     [buffer      |-> st.buffer \ {top},
                      next_seq_nr |-> st.next_seq_nr + 1,
                      called      |-> Append(st.called,
                                             [process_id |-> process_id,
                                              msg        |-> top.msg,
                                              seq_nr     |-> top.seq_nr])])

FifoInit ==
  /\ fifo_buffered = [p \in FifoProcs |-> NewBufferedMessages]
  /\ fifo_callbacks = <<>>
  /\ fifo_urb = <<>>

\* The lambda FifoBroadcast::listen passes to the layer below.
FifoListen(process_id, seq_nr, data) ==
  LET msg    == DecodeUint32(data)
      buffer == fifo_buffered[process_id]
  IN /\ [process_id |-> process_id, seq_nr |-> seq_nr] \in UrbDeliverable
     /\ fifo_urb' = Append(fifo_urb, [process_id |-> process_id, seq_nr |-> seq_nr])
     /\ IF IsNext(buffer.next_seq_nr, seq_nr)
        THEN LET st == Drain(process_id,
                             [buffer      |-> buffer.buffer,
                              next_seq_nr |-> buffer.next_seq_nr + 1,
                              called      |-> <<[process_id |-> process_id,
                                                 msg        |-> msg,
                                                 seq_nr     |-> seq_nr]>>])
             IN /\ fifo_callbacks' = fifo_callbacks \o st.called
                /\ fifo_buffered' =
                     [fifo_buffered EXCEPT
                        ![process_id] = [next_seq_nr |-> st.next_seq_nr,
                                         buffer      |-> st.buffer]]
        ELSE /\ fifo_buffered' =
                  [fifo_buffered EXCEPT
                     ![process_id].buffer =
                        @ \cup {[seq_nr |-> seq_nr, msg |-> msg]}]
             /\ UNCHANGED fifo_callbacks
     /\ UNCHANGED <<plVars, laVars, urbVars, apiVars, lockVars>>

FIFONext ==
  \E process_id \in FifoProcs, seq_nr \in FifoSeqNrs :
     FifoListen(process_id, seq_nr, FifoData(seq_nr))

(***************************************************************************)
(* THE CALLS OF ONE LINK: bind, send, listen, broadcast                    *)
(***************************************************************************)

\* PerfectLink::MAX_MESSAGE_SIZE
MaxMessageSize == 64

\* PerfectLink::MAX_MESSAGE_COUNT_IN_PACKET
MaxMessageCountInPacket == 8

\* sizeof(PerfectLink::MessageSizeType)
SizeBytes == 2

\* The membership map of the process (BestEffortBroadcast::_processes).
ApiProcs == 1 .. 2

\* The id of the process whose link is modelled (PerfectLink::_id).
ApiId == 1

\* Bound: the number of calls that return without an exception in one run.
MaxCalls == 3

\* The bytes of the header in front of the metadata:
\* 1 + sizeof(MessageIdType) + sizeof(ProcessIdType).
HeaderSize == 1 + SeqBytes + ProcessIdBytes

\* The longest single payload that fits without metadata.
LargestPayload == MaxMessageSize - HeaderSize - SizeBytes - SizeBytes

\* The optional metadata of a call: <<>> is std::nullopt, <<bytes>> a value.
ApiMetadatas == {<<>>, <<<<5, 6>>>>}

\* The payload lists of a call: none, one, MAX_MESSAGE_COUNT_IN_PACKET
\* payloads, one payload that makes the message exactly MAX_MESSAGE_SIZE
\* bytes long without metadata, and one that is a byte longer.
ApiDatas ==
  {<<>>,
   <<<<7>>>>,
   [i \in 1 .. MaxMessageCountInPacket |-> <<i>>],
   <<[i \in 1 .. LargestPayload |-> i]>>,
   <<[i \in 1 .. LargestPayload + 1 |-> i]>>}

\* metadata.value_or(std::make_tuple(nullptr, 0))
MetadataValue(metadata) == IF metadata = <<>> THEN <<>> ELSE metadata[1]

\* (std::get<1>(datas) + ... + 0)
RECURSIVE SumLengths(_)
SumLengths(datas) ==
  IF datas = <<>> THEN 0 ELSE Len(Head(datas)) + SumLengths(Tail(datas))

\* hpp _prepare_message: message_size
MessageSize(metadata, datas) ==
  1 + SeqBytes + ProcessIdBytes + Len(MetadataValue(metadata)) + SizeBytes
    + SumLengths(datas) + Len(datas) * SizeBytes

\* hpp _prepare_message: if (message_size > MAX_MESSAGE_SIZE) throw
MutTooLargeAtMax(message_size) == message_size >= MaxMessageSize
TooLarge(message_size) == message_size > MaxMessageSize

\* message[offset++] = (length >> (8 * i)) & 0xff
EncodeLength(length) ==
  [i \in 1 .. SizeBytes |-> (length \div (ByteRange ^ (i - 1))) % ByteRange]

\* for (const auto& [data, length] : {datas...}): length, then the bytes.
RECURSIVE EncodeDatas(_)
EncodeDatas(datas) ==
  IF datas = <<>> THEN <<>>
  ELSE EncodeLength(Len(Head(datas))) \o Head(datas) \o EncodeDatas(Tail(datas))

\* hpp _prepare_message: the first message_size bytes of the array.
PrepareMessageBytes(id, seq_nr, is_ack, metadata, datas) ==
  <<is_ack>> \o EncodeSeqNr(seq_nr) \o <<id>>
    \o EncodeLength(Len(MetadataValue(metadata))) \o MetadataValue(metadata)
    \o EncodeDatas(datas)

\* cpp _prepare_message(seq_nr, nullptr, 0, true): the ACK of listen.
PrepareAckBytes(id, seq_nr) ==
  <<1>> \o EncodeSeqNrAck(seq_nr) \o <<id % ByteRange>>

\* cpp _decode_message: is_ack, seq_nr, process_id and the bytes after the
\* header up to message_size.
DecodeMessage(message, message_size) ==
  [is_ack     |-> message[1] # 0,
   seq_nr     |-> DecodeSeqNr(SubSeq(message, 2, 1 + SeqBytes)),
   process_id |-> message[1 + SeqBytes + 1],
   data       |-> SubSeq(message, HeaderSize + 1, message_size)]

\* What the callback of listen is given for a datagram: no metadata, and
\* the decoded data as the one payload.
Delivered(message, message_size) ==
  [metadata |-> <<>>, datas |-> <<DecodeMessage(message, message_size).data>>]

\* std::optional<int>::has_value of _sock_fd
MutHasValueAlways(sock_fd) == TRUE
HasValue(sock_fd) == sock_fd # <<>>

\* A call that has not been made.
NoCall == [op |-> "none", thrown |-> "", metadata |-> <<>>, datas |-> <<>>,
           sent |-> <<>>]

\* The outcome of a call that throws.
Thrown(op, what, metadata, datas) ==
  [op |-> op, thrown |-> what, metadata |-> metadata, datas |-> datas,
   sent |-> <<>>]

ApiInit ==
  /\ api_sock_fd = <<>>
  /\ api_seq_nr = InitialSeqNr
  /\ api_pending = EmptyMap
  /\ api_delivered = {}
  /\ api_listening = FALSE
  /\ api_net = {}
  /\ api_callbacks = <<>>
  /\ api_calls = 0
  /\ api_last_call = NoCall
  /\ api_thrown = {}

\* PerfectLink::bind
ApiBind ==
  /\ api_calls < MaxCalls
  /\ IF HasValue(api_sock_fd)
     THEN /\ api_last_call' = Thrown("bind", "Cannot bind a link twice", <<>>, <<>>)
          /\ api_thrown' = api_thrown \cup {"Cannot bind a link twice"}
          /\ UNCHANGED <<api_sock_fd, api_calls>>
     ELSE /\ api_sock_fd' = <<"socket">>
          /\ api_last_call' = [NoCall EXCEPT !.op = "bind"]
          /\ api_calls' = api_calls + 1
          /\ UNCHANGED api_thrown
  /\ UNCHANGED <<api_seq_nr, api_pending, api_delivered, api_listening,
                 api_net, api_callbacks, plVars, laVars, urbVars, fifoVars, lockVars>>

\* PerfectLink::send on the link state st = [thrown, seq_nr, pending, net,
\* sent]: the exceptions first, then try_emplace, _seq_nr += 1 and sendto.
PLSend(st, host, metadata, datas) ==
  IF ~HasValue(api_sock_fd)
  THEN [st EXCEPT !.thrown = "Cannot send if not bound"]
  ELSE IF TooLarge(MessageSize(metadata, datas))
  THEN [st EXCEPT !.thrown = "Message is too large"]
  ELSE LET message == PrepareMessageBytes(ApiId, st.seq_nr, 0, metadata, datas)
           message_size == MessageSize(metadata, datas)
       IN [thrown  |-> "",
           seq_nr  |-> st.seq_nr + 1,
           pending |-> TryEmplace(st.pending, st.seq_nr,
                                  [addr |-> host, message |-> message,
                                   message_size |-> message_size]),
           net     |-> st.net \cup {[to |-> host, from |-> ApiId,
                                     message |-> message,
                                     message_size |-> message_size]},
           sent    |-> Append(st.sent, [to |-> host, seq_nr |-> st.seq_nr,
                                        message |-> message,
                                        message_size |-> message_size])]

\* The state of the link, as PLSend takes it.
LinkState ==
  [thrown |-> "", seq_nr |-> api_seq_nr, pending |-> api_pending,
   net |-> api_net, sent |-> <<>>]

\* The effect of a send or broadcast call that ended in the link state st.
Outcome(op, st, metadata, datas) ==
  /\ api_calls' = IF st.thrown = "" THEN api_calls + 1 ELSE api_calls
  /\ api_seq_nr' = st.seq_nr
  /\ api_pending' = st.pending
  /\ api_net' = st.net
  /\ api_last_call' = [op |-> op, thrown |-> st.thrown, metadata |-> metadata,
                       datas |-> datas, sent |-> st.sent]
  /\ api_thrown' = IF st.thrown = "" THEN api_thrown
                   ELSE api_thrown \cup {st.thrown}
  /\ UNCHANGED <<api_sock_fd, api_delivered, api_listening, api_callbacks,
                 plVars, laVars, urbVars, fifoVars, lockVars>>

\* PerfectLink::send(host, port, metadata, datas...)
ApiSend(host, metadata, datas) ==
  /\ api_calls < MaxCalls
  /\ Outcome("send", PLSend(LinkState, host, metadata, datas), metadata, datas)

\* The orders in which the loop of broadcast may visit _processes, an
\* unordered_map: every member once.
MutBroadcastOrdersSkipSelf ==
  {order \in [1 .. Cardinality(ApiProcs) - 1 -> ApiProcs \ {ApiId}] :
     \A i, j \in DOMAIN order : i # j => order[i] # order[j]}
BroadcastOrders ==
  {order \in [1 .. Cardinality(ApiProcs) -> ApiProcs] :
     \A i, j \in DOMAIN order : i # j => order[i] # order[j]}

\* for (const auto& [_, address] : _processes) _link.send(...): an
\* exception of send leaves the loop.
RECURSIVE BroadcastLoop(_, _, _, _)
BroadcastLoop(st, order, metadata, datas) ==
  IF order = <<>> \/ st.thrown # "" THEN st
  ELSE BroadcastLoop(PLSend(st, Head(order), metadata, datas), Tail(order),
                     metadata, datas)

\* BestEffortBroadcast::broadcast(metadata, datas...)
ApiBroadcast(order, metadata, datas) ==
  /\ api_calls < MaxCalls
  /\ Outcome("broadcast", BroadcastLoop(LinkState, order, metadata, datas),
             metadata, datas)

\* PerfectLink::listen: the exception, or the start of the receive loop.
ApiListen ==
  /\ api_calls < MaxCalls
  /\ IF ~HasValue(api_sock_fd)
     THEN /\ api_last_call' = Thrown("listen", "Cannot listen if not bound", <<>>, <<>>)
          /\ api_thrown' = api_thrown \cup {"Cannot listen if not bound"}
          /\ UNCHANGED <<api_listening, api_calls>>
     ELSE /\ api_listening' = TRUE
          /\ api_last_call' = [NoCall EXCEPT !.op = "listen"]
          /\ api_calls' = api_calls + 1
          /\ UNCHANGED api_thrown
  /\ UNCHANGED <<api_sock_fd, api_seq_nr, api_pending, api_delivered, api_net,
                 api_callbacks, plVars, laVars, urbVars, fifoVars, lockVars>>

\* The receive loop of listen, recvfrom returned datagram d: an ACK erases
\* the pending entry; any other datagram is delivered when it is new and
\* answered with an ACK to the source address.
ApiReceive(d) ==
  /\ api_listening
  /\ d \in api_net /\ d.to = ApiId
  /\ LET m == DecodeMessage(d.message, d.message_size)
     IN IF m.is_ack
        THEN /\ api_pending' = Erase(api_pending, m.seq_nr)
             /\ api_net' = api_net \ {d}
             /\ UNCHANGED <<api_delivered, api_callbacks>>
        ELSE /\ IF <<m.process_id, m.seq_nr>> \notin api_delivered
                THEN /\ api_callbacks' =
                          Append(api_callbacks,
                                 [process_id |-> m.process_id, data |-> m.data])
                     /\ api_delivered' =
                          api_delivered \cup {<<m.process_id, m.seq_nr>>}
                ELSE UNCHANGED <<api_delivered, api_callbacks>>
             /\ api_net' = (api_net \ {d}) \cup
                             {[to |-> d.from, from |-> ApiId,
                               message |-> PrepareAckBytes(ApiId, m.seq_nr),
                               message_size |-> HeaderSize]}
             /\ UNCHANGED api_pending
  /\ UNCHANGED <<api_sock_fd, api_seq_nr, api_listening, api_calls,
                 api_last_call, api_thrown, plVars, laVars, urbVars, fifoVars, lockVars>>

\* The receive loop of listen, recvfrom timed out: resend what is pending.
ApiTimeout ==
  /\ api_listening
  /\ api_pending # EmptyMap
  /\ api_net' = api_net \cup
       {[to |-> api_pending[k].addr, from |-> ApiId,
         message |-> api_pending[k].message,
         message_size |-> api_pending[k].message_size] : k \in DOMAIN api_pending}
  /\ UNCHANGED <<api_sock_fd, api_seq_nr, api_pending, api_delivered,
                 api_listening, api_callbacks, api_calls, api_last_call,
                 api_thrown, plVars, laVars, urbVars, fifoVars, lockVars>>

ApiNext ==
  \/ ApiBind
  \/ \E host \in ApiProcs, metadata \in ApiMetadatas, datas \in ApiDatas :
       ApiSend(host, metadata, datas)
  \/ \E order \in BroadcastOrders, metadata \in ApiMetadatas, datas \in ApiDatas :
       ApiBroadcast(order, metadata, datas)
  \/ ApiListen
  \/ \E d \in api_net : ApiReceive(d)
  \/ ApiTimeout

(***************************************************************************)
(* THE LOCKS OF ONE PROCESS: its user thread and its listener thread       *)
(***************************************************************************)

\* main: one thread runs listen, the other calls propose or broadcast.
LockThreads == {"user", "listener"}

\* The front end the process runs: LatticeAgreement or
\* UniformReliableBroadcast.
LockStacks == {"LA", "URB"}

\* Bound: the propose (broadcast) calls the user thread makes.
MaxGateCalls == 2

\* Bound: the processes of the membership map, one send call each in
\* BestEffortBroadcast::broadcast.
MaxLockSends == 2

\* LatticeAgreement::_agreements_mutex
AgreementsMutex == "_agreements_mutex"

\* UniformReliableBroadcast::_acknowledged_mutex
AcknowledgedMutex == "_acknowledged_mutex"

\* PerfectLink::_pending_for_ack_mutex
PendingForAckMutex == "_pending_for_ack_mutex"

\* PerfectLink::_delivered_mutex
DeliveredMutex == "_delivered_mutex"

\* Semaphore::_mutex of _send_semaphore
SemaphoreMutex == "_send_semaphore._mutex"

\* The locks of the link.
PLMutexes == {PendingForAckMutex, DeliveredMutex}

\* The locks of the layers above the link.
LayerMutexes == {AgreementsMutex, AcknowledgedMutex}

\* The steps at which a thread takes a mutex, and the mutex it takes.
LockLabels ==
  {"acquire", "release", "propose_lock", "handler_lock", "broadcast_lock",
   "urb_lock", "pending_lock", "send_lock", "delivered_lock"}

\* The steps at which a thread gives a mutex back.
UnlockLabels ==
  {"release_unlock", "propose_unlock", "handler_unlock", "broadcast_unlock",
   "urb_unlock", "pending_unlock", "send_unlock", "delivered_unlock"}

MutexOf(label) ==
  CASE label \in {"acquire", "release", "release_unlock"} -> SemaphoreMutex
    [] label \in {"propose_lock", "propose_unlock",
                  "handler_lock", "handler_unlock"} -> AgreementsMutex
    [] label \in {"broadcast_lock", "broadcast_unlock",
                  "urb_lock", "urb_unlock"} -> AcknowledgedMutex
    [] label \in {"pending_lock", "pending_unlock",
                  "send_lock", "send_unlock"} -> PendingForAckMutex
    [] label \in {"delivered_lock", "delivered_unlock"} -> DeliveredMutex

\* The steps that take or give back no mutex and write no shared state:
\* _prepare_message at the start of PerfectLink::send, sendto at its end, and
\* the run of a user callback.
PlainLabels == {"send", "sendto", "la_callback", "urb_callback"}

\* Semaphore::acquire: unique_lock, then _cv.wait and "_count -= 1".
AcquireSteps == <<"acquire", "acquire_check">>

\* Semaphore::release: lock_guard, "_count += 1" and notify_one, unlock.
ReleaseSteps == <<"release", "release_count", "release_unlock">>

\* PerfectLink::send: _prepare_message, the block under
\* _pending_for_ack_mutex, sendto.
SendSteps == <<"send", "send_lock", "send_unlock", "sendto">>

\* BestEffortBroadcast::broadcast: one send call for every process.
RECURSIVE BroadcastSteps(_)
BroadcastSteps(n) == IF n = 0 THEN <<>> ELSE SendSteps \o BroadcastSteps(n - 1)

\* _decide: the callback, then _send_semaphore.release().
DecideSteps == <<"la_callback">> \o ReleaseSteps

MutProposeStepsLockFirst ==
  <<"propose_lock">> \o AcquireSteps \o <<"propose_body", "propose_unlock">>
\* propose: _send_semaphore.acquire(), lock_guard, the body, and the end of
\* the scope of the guard.
ProposeSteps ==
  AcquireSteps \o <<"propose_lock", "propose_body", "propose_unlock">>

\* UniformReliableBroadcast::broadcast: _send_semaphore.acquire(), the block
\* under _acknowledged_mutex, _link.broadcast.
UrbBroadcastSteps ==
  AcquireSteps \o <<"broadcast_lock", "broadcast_insert", "broadcast_unlock">>
    \o BroadcastSteps(MaxLockSends)

\* PerfectLink::listen, timeout or ACK: the block under
\* _pending_for_ack_mutex.
PendingSteps == <<"pending_lock", "pending_unlock">>

\* The handlers of LatticeAgreement::listen: lock_guard, the body, and the
\* end of the scope of the guard.
HandlerSteps(body) == <<"handler_lock", body, "handler_unlock">>

\* PerfectLink::listen_batch: the insertion into _delivered under
\* _delivered_mutex, which reports whether the datagram is new.
ListenBatchSteps == <<"delivered_lock", "delivered_insert", "delivered_unlock">>

\* The lambda of UniformReliableBroadcast::listen up to the unlock.
UrbListenSteps == <<"urb_lock", "urb_acks", "urb_unlock">>

\* Where a thread is between two calls: the user thread outside propose
\* and broadcast, the listener at recvfrom.
Home(t) == IF t = "user" THEN "idle" ELSE "recv"

\* A thread that is to run steps.
Frame(t, steps) ==
  IF steps = <<>> THEN [at |-> Home(t), k |-> <<>>]
  ELSE [at |-> Head(steps), k |-> Tail(steps)]

\* The position after the step thread t is at.
Return(t) == Frame(t, lk_pc[t].k)

\* No thread holds mutex.
Free(mutex) == \A t \in LockThreads : mutex \notin lk_held[t]

\* Semaphore::acquire: the predicate of _cv.wait, "_count > 0".
AcquirePredicate(count) == count > 0

\* Semaphore::release: _cv.notify_one() wakes one of the waiting threads.
MutNotifiedNone(waiting) == {}
Notified(waiting) ==
  IF waiting = {} THEN {} ELSE {CHOOSE t \in waiting : TRUE}

LockFields ==
  /\ lk_pc = [t \in LockThreads |-> Frame(t, <<>>)]
  /\ lk_held = [t \in LockThreads |-> {}]
  /\ lk_count = IF lk_stack = "LA" THEN LAMaxInFlight ELSE UrbMaxInFlight
  /\ lk_waiting = {}
  /\ lk_signalled = {}
  /\ lk_open = 0
  /\ lk_calls = 0
  /\ lk_acquired = 0
  /\ lk_released = 0
  /\ lk_woken = 0

\* The threads of a process whose locks are not followed.
LockInit == lk_stack = "LA" /\ LockFields

\* The user thread calls propose or broadcast.
UserCall(t) ==
  /\ t = "user"
  /\ lk_pc[t].at = "idle"
  /\ lk_calls < MaxGateCalls
  /\ lk_calls' = lk_calls + 1
  /\ lk_pc' = [lk_pc EXCEPT ![t] =
       Frame(t, IF lk_stack = "LA" THEN ProposeSteps ELSE UrbBroadcastSteps)]
  /\ UNCHANGED <<lk_stack, lk_held, lk_count, lk_waiting, lk_signalled,
                 lk_open, lk_acquired, lk_released, lk_woken,
                 plVars, laVars, urbVars, fifoVars, apiVars>>

\* The receive loop: recvfrom returns with a timeout or an ACK, or with a
\* datagram that is handed on (PerfectLink::listen hands it to the lambda of
\* LatticeAgreement::listen; listen_batch first looks it up in _delivered).
Recv(t) ==
  /\ t = "listener"
  /\ lk_pc[t].at = "recv"
  /\ \E steps \in
        {PendingSteps} \cup
        (IF lk_stack = "LA"
         THEN {HandlerSteps("proposal_body"), HandlerSteps("reply_body")}
         ELSE {ListenBatchSteps}) :
       lk_pc' = [lk_pc EXCEPT ![t] = Frame(t, steps)]
  /\ UNCHANGED <<lk_stack, lk_held, lk_count, lk_waiting, lk_signalled,
                 lk_open, lk_calls, lk_acquired, lk_released, lk_woken,
                 plVars, laVars, urbVars, fifoVars, apiVars>>

\* std::lock_guard, std::unique_lock, mutex::lock: the thread goes on when
\* no thread holds the mutex.
Lock(t) ==
  /\ lk_pc[t].at \in LockLabels
  /\ Free(MutexOf(lk_pc[t].at))
  /\ lk_held' = [lk_held EXCEPT ![t] = @ \cup {MutexOf(lk_pc[t].at)}]
  /\ lk_pc' = [lk_pc EXCEPT ![t] = Return(t)]
  /\ UNCHANGED <<lk_stack, lk_count, lk_waiting, lk_signalled, lk_open,
                 lk_calls, lk_acquired, lk_released, lk_woken,
                 plVars, laVars, urbVars, fifoVars, apiVars>>

\* The end of the scope of a guard, or mutex::unlock.
Unlock(t) ==
  /\ lk_pc[t].at \in UnlockLabels
  /\ lk_held' = [lk_held EXCEPT ![t] = @ \ {MutexOf(lk_pc[t].at)}]
  /\ lk_pc' = [lk_pc EXCEPT ![t] = Return(t)]
  /\ UNCHANGED <<lk_stack, lk_count, lk_waiting, lk_signalled, lk_open,
                 lk_calls, lk_acquired, lk_released, lk_woken,
                 plVars, laVars, urbVars, fifoVars, apiVars>>

\* A step that takes no mutex: _prepare_message, sendto, a user callback.
Advance(t) ==
  /\ lk_pc[t].at \in PlainLabels
  /\ lk_pc' = [lk_pc EXCEPT ![t] = Return(t)]
  /\ UNCHANGED <<lk_stack, lk_held, lk_count, lk_waiting, lk_signalled,
                 lk_open, lk_calls, lk_acquired, lk_released, lk_woken,
                 plVars, laVars, urbVars, fifoVars, apiVars>>

\* Semaphore::acquire, _cv.wait(lock, pred) and "_count -= 1": with the
\* predicate true the count is lowered and the call returns; otherwise the
\* thread gives the mutex back and blocks, in one step.
AcquireCheck(t) ==
  /\ lk_pc[t].at = "acquire_check"
  /\ lk_held' = [lk_held EXCEPT ![t] = @ \ {SemaphoreMutex}]
  /\ IF AcquirePredicate(lk_count)
     THEN /\ lk_count' = Acquire(lk_count)
          /\ lk_acquired' = lk_acquired + 1
          /\ lk_pc' = [lk_pc EXCEPT ![t] = Return(t)]
          /\ UNCHANGED lk_waiting
     ELSE /\ lk_waiting' = lk_waiting \cup {t}
          /\ lk_pc' = [lk_pc EXCEPT ![t].at = "acquire_blocked"]
          /\ UNCHANGED <<lk_count, lk_acquired>>
  /\ UNCHANGED <<lk_stack, lk_signalled, lk_open, lk_calls, lk_released,
                 lk_woken, plVars, laVars, urbVars, fifoVars, apiVars>>

\* _cv.wait: a thread that was notified takes the mutex again and evaluates
\* the predicate once more.
AcquireWake(t) ==
  /\ lk_pc[t].at = "acquire_blocked"
  /\ t \in lk_signalled
  /\ Free(SemaphoreMutex)
  /\ lk_signalled' = lk_signalled \ {t}
  /\ lk_held' = [lk_held EXCEPT ![t] = @ \cup {SemaphoreMutex}]
  /\ lk_pc' = [lk_pc EXCEPT ![t].at = "acquire_check"]
  /\ lk_woken' = lk_woken + 1
  /\ UNCHANGED <<lk_stack, lk_count, lk_waiting, lk_open, lk_calls,
                 lk_acquired, lk_released, plVars, laVars, urbVars, fifoVars,
                 apiVars>>

\* Semaphore::release: "_count += 1" and _cv.notify_one().
ReleaseCount(t) ==
  /\ lk_pc[t].at = "release_count"
  /\ lk_count' = Release(lk_count)
  /\ lk_released' = lk_released + 1
  /\ lk_waiting' = lk_waiting \ Notified(lk_waiting)
  /\ lk_signalled' = lk_signalled \cup Notified(lk_waiting)
  /\ lk_pc' = [lk_pc EXCEPT ![t] = Return(t)]
  /\ UNCHANGED <<lk_stack, lk_held, lk_open, lk_calls, lk_acquired, lk_woken,
                 plVars, laVars, urbVars, fifoVars, apiVars>>

\* propose under the guard: with the full set _decide, otherwise
\* _broadcast_proposal.
ProposeBody(t) ==
  /\ lk_pc[t].at = "propose_body"
  /\ \/ /\ lk_pc' = [lk_pc EXCEPT ![t] =
             Frame(t, DecideSteps \o lk_pc[t].k)]
        /\ UNCHANGED lk_open
     \/ /\ lk_pc' = [lk_pc EXCEPT ![t] =
             Frame(t, BroadcastSteps(MaxLockSends) \o lk_pc[t].k)]
        /\ lk_open' = lk_open + 1
  /\ UNCHANGED <<lk_stack, lk_held, lk_count, lk_waiting, lk_signalled,
                 lk_calls, lk_acquired, lk_released, lk_woken,
                 plVars, laVars, urbVars, fifoVars, apiVars>>

\* _handle_proposal under the guard: the reply is sent with _link.send.
ProposalBody(t) ==
  /\ lk_pc[t].at = "proposal_body"
  /\ lk_pc' = [lk_pc EXCEPT ![t] = Frame(t, SendSteps \o lk_pc[t].k)]
  /\ UNCHANGED <<lk_stack, lk_held, lk_count, lk_waiting, lk_signalled,
                 lk_open, lk_calls, lk_acquired, lk_released, lk_woken,
                 plVars, laVars, urbVars, fifoVars, apiVars>>

\* _handle_ack and _handle_nack under the guard: the message is ignored or
\* only counted; or the agreement is decided; or _check_nacks starts a new
\* round with _broadcast_proposal.
ReplyBody(t) ==
  /\ lk_pc[t].at = "reply_body"
  /\ \/ /\ lk_pc' = [lk_pc EXCEPT ![t] = Return(t)]
        /\ UNCHANGED lk_open
     \/ /\ lk_open > 0
        /\ lk_pc' = [lk_pc EXCEPT ![t] =
             Frame(t, DecideSteps \o lk_pc[t].k)]
        /\ lk_open' = lk_open - 1
     \/ /\ lk_open > 0
        /\ lk_pc' = [lk_pc EXCEPT ![t] =
             Frame(t, BroadcastSteps(MaxLockSends) \o lk_pc[t].k)]
        /\ UNCHANGED lk_open
  /\ UNCHANGED <<lk_stack, lk_held, lk_count, lk_waiting, lk_signalled,
                 lk_calls, lk_acquired, lk_released, lk_woken,
                 plVars, laVars, urbVars, fifoVars, apiVars>>

\* UniformReliableBroadcast::broadcast under the guard: try_emplace and
\* "_seq_nr += ...".
BroadcastInsert(t) ==
  /\ lk_pc[t].at = "broadcast_insert"
  /\ lk_open' = lk_open + 1
  /\ lk_pc' = [lk_pc EXCEPT ![t] = Return(t)]
  /\ UNCHANGED <<lk_stack, lk_held, lk_count, lk_waiting, lk_signalled,
                 lk_calls, lk_acquired, lk_released, lk_woken,
                 plVars, laVars, urbVars, fifoVars, apiVars>>

\* listen_batch under _delivered_mutex: a datagram that is new is handed to
\* the lambda of UniformReliableBroadcast::listen after the unlock.
DeliveredInsert(t) ==
  /\ lk_pc[t].at = "delivered_insert"
  /\ \E new \in BOOLEAN :
       lk_pc' = [lk_pc EXCEPT ![t] =
         Frame(t, <<Head(lk_pc[t].k)>>
                    \o (IF new THEN UrbListenSteps ELSE <<>>)
                    \o Tail(lk_pc[t].k))]
  /\ UNCHANGED <<lk_stack, lk_held, lk_count, lk_waiting, lk_signalled,
                 lk_open, lk_calls, lk_acquired, lk_released, lk_woken,
                 plVars, laVars, urbVars, fifoVars, apiVars>>

\* The lambda of UniformReliableBroadcast::listen under
\* _acknowledged_mutex: should_deliver and should_broadcast are computed;
\* after the unlock come the release of the semaphore for a broadcast of
\* the process itself, the callback, and the echo.
UrbAcks(t) ==
  /\ lk_pc[t].at = "urb_acks"
  /\ \E should_deliver \in BOOLEAN, own \in BOOLEAN, should_broadcast \in BOOLEAN :
       /\ own => (should_deliver /\ lk_open > 0)
       /\ lk_open' = IF own THEN lk_open - 1 ELSE lk_open
       /\ lk_pc' = [lk_pc EXCEPT ![t] =
            Frame(t, <<Head(lk_pc[t].k)>>
                       \o (IF own THEN ReleaseSteps ELSE <<>>)
                       \o (IF should_deliver THEN <<"urb_callback">> ELSE <<>>)
                       \o (IF should_broadcast
                           THEN BroadcastSteps(MaxLockSends) ELSE <<>>)
                       \o Tail(lk_pc[t].k))]
  /\ UNCHANGED <<lk_stack, lk_held, lk_count, lk_waiting, lk_signalled,
                 lk_calls, lk_acquired, lk_released, lk_woken,
                 plVars, laVars, urbVars, fifoVars, apiVars>>

\* One step of thread t.
LockStep(t) ==
  \/ UserCall(t)
  \/ Recv(t)
  \/ Lock(t)
  \/ Unlock(t)
  \/ Advance(t)
  \/ AcquireCheck(t)
  \/ AcquireWake(t)
  \/ ReleaseCount(t)
  \/ ProposeBody(t)
  \/ ProposalBody(t)
  \/ ReplyBody(t)
  \/ BroadcastInsert(t)
  \/ DeliveredInsert(t)
  \/ UrbAcks(t)

LockNext == \E t \in LockThreads : LockStep(t)

vars == <<plVars, laVars, urbVars, fifoVars, apiVars, lockVars>>

\* The layers a specification does not exercise are groups of one process.
OtherLayersAtRest == la_n = 1 /\ urb_n = 1 /\ urb_uninit = 0 /\ FifoInit /\ ApiInit /\ LockInit

\* The perfect link after construction; the other layers are not running.
InitPL == PLInit /\ LAInit /\ URBInit /\ OtherLayersAtRest

SpecPL == InitPL /\ [][PLNext]_vars

\* The perfect link of long-running processes.
InitPLLate == PLInitLate /\ LAInit /\ URBInit /\ OtherLayersAtRest

SpecPLLate == InitPLLate /\ [][PLNext]_vars

\* Lattice agreement after construction; the other layers are not running.
InitLA == LAInit /\ PLInit /\ URBInit /\ urb_n = 1 /\ urb_uninit = 0 /\ FifoInit /\ ApiInit /\ LockInit

SpecLA == InitLA /\ [][LANext]_vars

\* Uniform reliable broadcast after construction; the other layers are not
\* running.
InitURB == URBInit /\ PLInit /\ LAInit /\ la_n = 1 /\ FifoInit /\ ApiInit /\ LockInit

SpecURB == InitURB /\ [][URBNext]_vars

\* Scenario S5 after construction; the other layers are not running.
InitLAS5 == LAInitS5 /\ PLInit /\ URBInit /\ urb_n = 1 /\ urb_uninit = 0 /\ FifoInit /\ ApiInit /\ LockInit

SpecLAS5 == InitLAS5 /\ [][LANextS5]_vars

\* Scenario S6 after construction; the other layers are not running.
InitLAS6 == LAInitS6 /\ PLInit /\ URBInit /\ urb_n = 1 /\ urb_uninit = 0 /\ FifoInit /\ ApiInit /\ LockInit

SpecLAS6 == InitLAS6 /\ [][LANextS6]_vars

\* The FIFO filter after construction; the other layers are not running.
InitFIFO ==
  FifoInit /\ PLInit /\ LAInit /\ URBInit /\ ApiInit /\ LockInit
    /\ la_n = 1 /\ urb_n = 1 /\ urb_uninit = 0

SpecFIFO == InitFIFO /\ [][FIFONext]_vars

\* One link after construction; the other layers are not running.
InitApi ==
  ApiInit /\ PLInit /\ LAInit /\ URBInit /\ FifoInit /\ LockInit
    /\ la_n = 1 /\ urb_n = 1 /\ urb_uninit = 0

SpecApi == InitApi /\ [][ApiNext]_vars

\* The two threads of one process that runs lattice agreement or uniform
\* reliable broadcast; the layers themselves are not running.
InitLocks ==
  /\ lk_stack \in LockStacks
  /\ LockFields
  /\ PLInit /\ LAInit /\ URBInit /\ FifoInit /\ ApiInit
  /\ la_n = 1 /\ urb_n = 1 /\ urb_uninit = 0

SpecLocks == InitLocks /\ [][LockNext]_vars

\* The scheduler lets every thread that can take a step take one.
LockFairness == \A t \in LockThreads : WF_vars(LockStep(t))

SpecLocksFair == SpecLocks /\ LockFairness

(***************************************************************************)
(* Lattice agreement: fairness and properties                              *)
(***************************************************************************)

\* Fairness of lattice agreement: the perfect link retransmits a datagram
\* until it is acknowledged, so a message for a running process is handed to
\* its listen callback.
LAFairness == WF_vars(\E m \in la_net : LADeliver(m))

SpecLAFair == SpecLA /\ LAFairness

\* The sets process i decided for agreement nr (the callback's arguments).
DecidedSets(i, nr) ==
  {la_decisions[i][k].values :
     k \in {x \in 1 .. Len(la_decisions[i]) : la_decisions[i][x].agreement_nr = nr}}

LAAgreementNrs == 0 .. MaxProposals

\* Fewer than half of the processes have crashed.
MajorityCorrect == 2 * Cardinality(la_crashed) < la_n

\* C1 (LA consistency): for any agreement number and any two nodes that
\* decide it, one decided set is a subset of the other, for every N.
C1_Consistency ==
  \A i \in LAProcs, j \in LAProcs, nr \in LAAgreementNrs :
    \A a \in DecidedSets(i, nr), b \in DecidedSets(j, nr) :
      a \subseteq b \/ b \subseteq a

\* C2 (LA validity): a set node i decides for an agreement contains every
\* value node i passed to propose for that agreement, and only values that
\* some node passed to propose for that agreement.
C2_Validity ==
  \A i \in LAProcs, nr \in LAAgreementNrs :
    \A d \in DecidedSets(i, nr) :
      /\ nr \in DOMAIN la_inputs[i]
      /\ la_inputs[i][nr] \subseteq d
      /\ d \subseteq UNION {la_inputs[j][nr] :
                              j \in {x \in LAProcs : nr \in DOMAIN la_inputs[x]}}

\* A node decided a set that is larger than its own input: values of another
\* node reached it in a Nack.
C2_Witness ==
  \E i \in LAProcs, nr \in LAAgreementNrs :
    \E d \in DecidedSets(i, nr) :
      /\ nr \in DOMAIN la_inputs[i]
      /\ d # la_inputs[i][nr]
      /\ Cardinality(d) < MaxUniqueValues

URBProgress ==
  \/ \E p \in URBProcs, t \in URBThreads :
       LinkSend(p, t) \/ LinkSendPrepare(p, t) \/ LinkSendCommit(p, t)
  \/ \E d \in urb_net : UrbListen(d.to, d)

URBFairness == WF_vars(URBProgress)

SpecURBFair == SpecURB /\ URBFairness

\* Process q invoked the delivery callback for the broadcast message_id.
UrbDelivered(q, message_id) ==
  \E k \in 1 .. Len(urb_callbacks[q]) : urb_callbacks[q][k].message_id = message_id

URBCorrect == (1 .. urb_n) \ urb_crashed

\* Fewer than half of the processes have crashed.
URBMajorityCorrect == 2 * Cardinality(urb_crashed) < urb_n

\* C4 (URB uniform agreement): while a majority of the processes are
\* correct, a broadcast that any node delivered, even one that crashed
\* afterwards, is eventually delivered by every correct node (deliveries and
\* crashes are never undone, so this is "again and again, every broadcast
\* delivered so far is delivered by every process still running").
C4_UniformAgreement ==
  []<>(\/ ~URBMajorityCorrect
       \/ \A p \in URBProcs :
            \A k \in 1 .. Len(urb_callbacks[p]) :
              \A q \in URBCorrect :
                UrbDelivered(q, urb_callbacks[p][k].message_id))

\* C5 (URB no duplication): at every node the payloads of one broadcast are
\* handed to the delivery callback at most once: no two invocations carry the
\* same BroadcastId and the same position in the batch.
C5_NoDuplication ==
  \A p \in URBProcs :
    \A j \in 1 .. Len(urb_callbacks[p]), k \in 1 .. Len(urb_callbacks[p]) :
      (/\ urb_callbacks[p][j].message_id = urb_callbacks[p][k].message_id
       /\ urb_callbacks[p][j].index = urb_callbacks[p][k].index) => j = k

\* A node delivered a broadcast and handled a further echo of it afterwards:
\* more bits are set than the delivery threshold.
C5_Witness ==
  \E p \in URBProcs :
    \E k \in 1 .. Len(urb_callbacks[p]) :
      LET message_id == urb_callbacks[p][k].message_id
      IN Cardinality(urb_acknowledged[p][message_id]) > (urb_n \div 2) + 1

\* C6 (URB validity): while a majority of the processes are correct, every
\* broadcast of a correct process is eventually delivered by every correct
\* process, the broadcaster included; and every delivery is attributed to a
\* process that made that broadcast.
C6_Validity ==
  /\ []<>(\/ ~URBMajorityCorrect
          \/ \A b \in urb_broadcasts :
               \/ b.author \in urb_crashed
               \/ \A q \in URBCorrect : UrbDelivered(q, b.metadata))
  /\ [](\A p \in URBProcs :
          \A k \in 1 .. Len(urb_callbacks[p]) :
            \E b \in urb_broadcasts :
              /\ b.author = urb_callbacks[p][k].author_id
              /\ b.metadata = urb_callbacks[p][k].message_id
              /\ b.datas[urb_callbacks[p][k].index] = urb_callbacks[p][k].data)

\* The ACK datagrams a run can put on the network.
PLAckDatagrams ==
  {[to |-> q, from |-> p, message |-> PrepareAck(p, n)] :
     p \in PLProcs, q \in PLProcs, n \in InitialSeqNr .. InitialSeqNr + MaxSends}

\* Fairness of the perfect link: a thread inside send finishes the call,
\* recvfrom times out again and again (SO_RCVTIMEO), and the network
\* delivers a datagram that is put on it again and again (a send call has
\* one datagram, the one encoded by its _prepare_message).
PLFairness ==
  /\ \A p \in PLProcs, t \in PLThreads : WF_vars(SendCommit(p, t))
  /\ \A p \in PLProcs : WF_vars(Timeout(p))
  /\ \A c \in 1 .. MaxSends :
       SF_vars(\E d \in pl_net : d.message.call = c /\ ReceiveData(d.to, d))
  /\ \A d \in PLAckDatagrams : SF_vars(ReceiveAck(d.to, d))

SpecPLFair == SpecPL /\ PLFairness

(***************************************************************************)
(* Claims about the perfect link                                           *)
(***************************************************************************)

\* The <<process_id, seq_nr>> pair of the i-th callback at p.
CallbackPair(p, i) == <<pl_callbacks[p][i].process_id, pl_callbacks[p][i].seq_nr>>

\* C7 (PL no duplication): at every receiver the callback is invoked at most
\* once for every pair (sender ProcessId, sender SeqNr); a step invokes the
\* callback exactly when it adds a new pair to the delivered set, the pair
\* added is the one the callback was invoked for, and the delivered set never
\* loses a pair.
C7_NoDuplication ==
  /\ [](\A p \in PLProcs : \A i, j \in 1 .. Len(pl_callbacks[p]) :
           i # j => CallbackPair(p, i) # CallbackPair(p, j))
  /\ [][\A p \in PLProcs :
          /\ pl_delivered[p] \subseteq pl_delivered'[p]
          /\ (pl_callbacks'[p] # pl_callbacks[p] \/ pl_delivered'[p] # pl_delivered[p])
               => /\ Len(pl_callbacks'[p]) = Len(pl_callbacks[p]) + 1
                  /\ SubSeq(pl_callbacks'[p], 1, Len(pl_callbacks[p])) = pl_callbacks[p]
                  /\ pl_delivered'[p] \ pl_delivered[p] =
                       {<<pl_callbacks'[p][Len(pl_callbacks'[p])].process_id,
                          pl_callbacks'[p][Len(pl_callbacks'[p])].seq_nr>>}]_vars

\* C7 witness: a duplicate of a delivered datagram was received.  The only
\* send call of the run was delivered once, its pending entry is already
\* erased by a first ACK, and a further ACK for it is on its way: the receiver
\* handled the datagram at least twice and invoked the callback once.
C7_Witness ==
  /\ Cardinality(pl_sent) = 1
  /\ \E s \in pl_sent :
       /\ Len(pl_callbacks[s.dst]) = 1
       /\ pl_callbacks[s.dst][1].call = s.call
       /\ pl_pending[s.src] = EmptyMap
       /\ \E d \in pl_net : /\ d.to = s.src /\ d.from = s.dst
                            /\ d.message.is_ack = 1
                            /\ d.message.seq = s.seq

\* The number of times a callback was invoked for the datagram of send call c.
TimesDelivered(c) ==
  Cardinality({x \in {<<p, i>> : p \in PLProcs, i \in 1 .. MaxSends} :
                 /\ x[2] <= Len(pl_callbacks[x[1]])
                 /\ pl_callbacks[x[1]][x[2]].call = c})

\* C8 (PL validity): when neither process crashes and both run their receive
\* loop, every message passed to send is eventually handed to the callback of
\* its destination exactly once.
C8_Validity ==
  \A c \in 1 .. MaxSends :
    (\E s \in pl_sent : s.call = c) ~> (TimesDelivered(c) = 1)

\* C9 (PL concurrent sends): the datagrams of two send calls of one process
\* carry different SeqNr values in their header, and every pending-map entry
\* is stored under the SeqNr its datagram carries.
C9_ConcurrentSendsUniqueSeqNr ==
  /\ \A s1, s2 \in pl_sent :
       (s1.src = s2.src /\ s1.call # s2.call) => s1.seq # s2.seq
  /\ \A p \in PLProcs : \A k \in DOMAIN pl_pending[p] :
       DecodeSeqNr(pl_pending[p][k].message.seq) = k

\* C10 (PL no creation): every callback invocation at receiver p with sender
\* id s and payload m follows a send call of process s with payload m
\* addressed to p; no callback invocation stems from an ACK datagram.
C10_NoCreation ==
  \A p \in PLProcs : \A i \in 1 .. Len(pl_callbacks[p]) :
    /\ pl_callbacks[p][i].call # 0
    /\ \E s \in pl_sent : /\ s.src = pl_callbacks[p][i].process_id
                          /\ s.dst = p
                          /\ s.data = pl_callbacks[p][i].data

\* C10 witness: a message was delivered and the ACK it caused was handled by
\* the sender (its pending entry is erased) without a callback for the ACK.
C10_Witness ==
  /\ Cardinality(pl_sent) = 1
  /\ \E s \in pl_sent :
       /\ s.src # s.dst
       /\ Len(pl_callbacks[s.dst]) = 1
       /\ pl_callbacks[s.src] = <<>>
       /\ pl_thread[s.src] = [t \in PLThreads |-> PLIdle]
       /\ pl_pending[s.src] = EmptyMap

\* C14 (PL acknowledgements): a step of the receive loop that takes a
\* non-ACK datagram d off the network puts exactly one ACK on it, addressed
\* to the source of d and carrying the seq_nr of d, whether or not the
\* callback fires (a step that changes nothing else and adds nothing is the
\* loss of d, or a receipt whose ACK is already in flight); a step that takes
\* an ACK off the network puts nothing on it.
C14_AckForEveryData ==
  [][\A d \in pl_net \ pl_net' :
       IF d.message.is_ack = 0
       THEN \/ pl_net' = pl_net \ {d}
            \/ \E a \in pl_net' :
                 /\ a.to = d.from /\ a.from = d.to
                 /\ a.message.is_ack = 1
                 /\ DecodeSeqNr(a.message.seq) = DecodeSeqNr(d.message.seq)
                 /\ pl_net' = (pl_net \ {d}) \cup {a}
       ELSE pl_net' = pl_net \ {d}]_vars

\* C15 (PL pending lifetime): an entry leaves the pending map only in a step
\* that takes an ACK with the entry's key off the network; a timeout puts the
\* datagram of every pending entry on the network; a datagram that is not
\* pending is put on the network only by its send call; and, with both
\* processes running, every pending entry is eventually removed (the send
\* calls of a run are finitely many, so this is "again and again, no entry is
\* pending").
C15_PendingLifetime ==
  /\ [][\A p \in PLProcs :
          /\ \A k \in DOMAIN pl_pending[p] \ DOMAIN pl_pending'[p] :
                \E d \in pl_net \ pl_net' :
                  d.to = p /\ d.message.is_ack = 1 /\ DecodeSeqNr(d.message.seq) = k
          /\ \A d \in pl_net' \ pl_net :
                (d.from = p /\ d.message.is_ack = 0)
                  => \/ \E k \in DOMAIN pl_pending[p] : pl_pending[p][k].message = d.message
                     \/ \E t \in PLThreads :
                          /\ pl_thread[p][t].at = "prepared"
                          /\ pl_thread[p][t].message = d.message]_vars
  /\ []<>(\A p \in PLProcs : pl_pending[p] = EmptyMap)

(***************************************************************************)
(* Lattice agreement: the scenarios S5 and S6, and the Ack path            *)
(***************************************************************************)

SpecLAS5Fair == SpecLAS5 /\ LAFairness

\* Every process of S5 that proposed and is still running has decided, while
\* a majority is correct.
S5AllDecided ==
  \A i \in S5Procs :
    (0 \in DOMAIN la_inputs[i])
      => (DecidedSets(i, 0) # {} \/ i \in la_crashed \/ ~MajorityCorrect)

C20_AckPathMajority ==
  [][\A i \in LAProcs :
       (/\ Len(la_decisions'[i]) > Len(la_decisions[i])
        /\ \E m \in la_net \ la_net' : m.to = i /\ m.kind = Ack)
         => LET nr == la_decisions'[i][Len(la_decisions'[i])].agreement_nr
            IN la_agreements'[i][nr].ack_count >= (la_n \div 2) + 1]_vars


(***************************************************************************)
(* FIFO broadcast: claim C13                                               *)
(***************************************************************************)

\* The callbacks made for originator p, in order.
FifoCallbacksOf(p) == SelectSeq(fifo_callbacks, LAMBDA c : c.process_id = p)

\* The deliveries of the layer below for originator p, in order.
FifoArrivalsOf(p) == SelectSeq(fifo_urb, LAMBDA d : d.process_id = p)

\* C13: for every originator the k-th message FifoBroadcast hands to its
\* callback is the one with seq_nr INITIAL_SEQ_NR + k - 1 -- increasing from
\* INITIAL_SEQ_NR, without gap or repeat -- in whatever order the layer
\* below delivered the messages.
C13_FifoOrder ==
  \A p \in FifoProcs :
     \A k \in DOMAIN FifoCallbacksOf(p) :
        /\ FifoCallbacksOf(p)[k].seq_nr = UrbInitialSeqNr + k - 1
        /\ FifoCallbacksOf(p)[k].msg = UrbInitialSeqNr + k - 1

\* The messages of an originator arrived in decreasing order of seq_nr and
\* all of them have been handed to the callback.
C13_Witness ==
  \E p \in FifoProcs :
     /\ Len(FifoArrivalsOf(p)) = MaxFifoSeq
     /\ \A k \in DOMAIN FifoArrivalsOf(p) :
           FifoArrivalsOf(p)[k].seq_nr = UrbInitialSeqNr + MaxFifoSeq - k
     /\ Len(FifoCallbacksOf(p)) = MaxFifoSeq


(***************************************************************************)
(* The calls of one link: claims C16 to C19                                *)
(***************************************************************************)

\* A step that is a call of op: the call returned, or threw what is now
\* recorded as the outcome of the last call.
CallStep(op) ==
  /\ api_last_call'.op = op
  /\ \/ api_calls' = api_calls + 1
     \/ api_last_call'.thrown # "" /\ api_last_call' # api_last_call

\* What a call that throws leaves alone: all of the link.
LinkUnchanged ==
  UNCHANGED <<api_sock_fd, api_seq_nr, api_pending, api_delivered,
              api_listening, api_net, api_callbacks>>

\* The seq_nr in the header of an encoded message.
HeaderSeqNr(message) == DecodeSeqNr(SubSeq(message, 2, 1 + SeqBytes))

\* C16: codec round trip -- decoding the datagram a send call encoded gives
\* back the metadata bytes of the call and its payloads, in the same order
\* and number.
C16_CodecRoundTrip ==
  \A k \in DOMAIN api_last_call.sent :
     LET sent == api_last_call.sent[k]
     IN Delivered(sent.message, sent.message_size) =
          [metadata |-> MetadataValue(api_last_call.metadata),
           datas    |-> api_last_call.datas]

\* C17: a send call whose message would be longer than MAX_MESSAGE_SIZE
\* throws and leaves the link as it was (seq_nr, pending map, network); a
\* send call on a bound link whose message is exactly MAX_MESSAGE_SIZE
\* long is accepted: it takes the seq_nr, is recorded as pending under it
\* and is transmitted.
C17_OversizeSendFails ==
  [][CallStep("send") =>
       LET size == MessageSize(api_last_call'.metadata, api_last_call'.datas)
       IN /\ size > MaxMessageSize =>
               /\ api_last_call'.thrown =
                    (IF api_sock_fd = <<>> THEN "Cannot send if not bound"
                                           ELSE "Message is too large")
               /\ api_last_call'.sent = <<>>
               /\ LinkUnchanged
          /\ (size = MaxMessageSize /\ api_sock_fd # <<>>) =>
               /\ api_last_call'.thrown = ""
               /\ api_seq_nr' = api_seq_nr + 1
               /\ DOMAIN api_pending' = DOMAIN api_pending \cup {api_seq_nr}
               /\ api_pending'[api_seq_nr].message_size = MaxMessageSize
               /\ Len(api_pending'[api_seq_nr].message) = MaxMessageSize
               /\ \E d \in api_net' :
                     /\ d.message = api_pending'[api_seq_nr].message
                     /\ HeaderSeqNr(d.message) = api_seq_nr]_vars

\* A send was accepted with a message of exactly MAX_MESSAGE_SIZE bytes,
\* and the last call was a send that was refused as too large.
C17_Witness ==
  /\ api_last_call.op = "send"
  /\ api_last_call.thrown = "Message is too large"
  /\ \E k \in DOMAIN api_pending : api_pending[k].message_size = MaxMessageSize

\* C18: bind on a bound link throws and leaves the socket, seq_nr, the
\* pending map and the delivered set as they were; send and listen on a
\* link that was never bound throw and change nothing.
C18_BindTwiceAndUnboundFail ==
  [][/\ (CallStep("bind") /\ api_sock_fd # <<>>) =>
          /\ api_last_call'.thrown = "Cannot bind a link twice"
          /\ LinkUnchanged
     /\ (CallStep("send") /\ api_sock_fd = <<>>) =>
          /\ api_last_call'.thrown = "Cannot send if not bound"
          /\ LinkUnchanged
     /\ (CallStep("listen") /\ api_sock_fd = <<>>) =>
          /\ api_last_call'.thrown = "Cannot listen if not bound"
          /\ LinkUnchanged]_vars

\* send and listen were refused before the bind, and the last call was a
\* second bind, which was refused.
C18_Witness ==
  /\ api_last_call.op = "bind"
  /\ api_last_call.thrown = "Cannot bind a link twice"
  /\ {"Cannot send if not bound", "Cannot listen if not bound"} \subseteq api_thrown

\* C19: a broadcast call that does not throw makes one send for every
\* process of the membership map, the caller included; every one of the
\* messages encodes the metadata and payloads of the call, each under a
\* seq_nr of its own, and the call changes nothing but what these sends
\* change in the link.
C19_BroadcastSendsToAll ==
  [][(CallStep("broadcast") /\ api_last_call'.thrown = "") =>
       LET sent == api_last_call'.sent
           n    == Cardinality(ApiProcs)
       IN /\ Len(sent) = n
          /\ \A p \in ApiProcs :
                Cardinality({k \in DOMAIN sent : sent[k].to = p}) = 1
          /\ \A k \in DOMAIN sent :
                /\ sent[k].message =
                     PrepareMessageBytes(ApiId, HeaderSeqNr(sent[k].message), 0,
                                         api_last_call'.metadata,
                                         api_last_call'.datas)
                /\ HeaderSeqNr(sent[k].message) \notin DOMAIN api_pending
                /\ HeaderSeqNr(sent[k].message) \in DOMAIN api_pending'
                /\ api_pending'[HeaderSeqNr(sent[k].message)].addr = sent[k].to
                /\ \E d \in api_net' :
                      d.to = sent[k].to /\ d.message = sent[k].message
          /\ \A j, k \in DOMAIN sent :
                j # k => HeaderSeqNr(sent[j].message) # HeaderSeqNr(sent[k].message)
          /\ api_seq_nr' = api_seq_nr + n
          /\ Cardinality(DOMAIN api_pending') = Cardinality(DOMAIN api_pending) + n
          /\ UNCHANGED <<api_sock_fd, api_delivered, api_listening,
                         api_callbacks>>]_vars

\* The last call was a broadcast of a metadata and a payload that went to
\* both members.
C19_Witness ==
  /\ api_last_call.op = "broadcast"
  /\ api_last_call.thrown = ""
  /\ api_last_call.metadata # <<>>
  /\ api_last_call.datas # <<>>
  /\ {api_last_call.sent[k].to : k \in DOMAIN api_last_call.sent} = ApiProcs


(***************************************************************************)
(* Uniform reliable broadcast: claims C21 and C30                          *)
(***************************************************************************)

\* C21: in the receive handler of listen, should_deliver and was_new (the
\* try_emplace inserted the message id) are never both true: no step hands a
\* message to the callback whose id was not in _acknowledged before the
\* step, and the assertion of listen never fails.
C21_NoDeliveryOnFirstSighting ==
  [][/\ \A p \in URBProcs :
          \A k \in DOMAIN urb_callbacks'[p] \ DOMAIN urb_callbacks[p] :
             urb_callbacks'[p][k].message_id \in DOMAIN urb_acknowledged[p]
     /\ urb_asserts' = {}]_vars


\* Process p has handed broadcast b to its own callback.
DeliveredLocally(p, b) ==
  \E k \in DOMAIN urb_callbacks[p] :
     urb_callbacks[p][k].message_id = DecodeMessageId(b.metadata)

\* The broadcasts of p that passed the gate and that p has not delivered.
UrbInFlight(p) ==
  {b \in urb_broadcasts : b.author = p /\ ~DeliveredLocally(p, b)}

\* C30: the count of _send_semaphore of a process is MAX_IN_FLIGHT minus the
\* number of its own broadcasts that it has not yet delivered itself: at most
\* MAX_IN_FLIGHT broadcasts are in flight, the count never exceeds
\* MAX_IN_FLIGHT, and the gate is released once for each own broadcast, in
\* the step in which the process delivers it.
C30_UrbInFlightGate ==
  \A p \in URBProcs :
     /\ urb_semaphore[p] \in 0 .. UrbMaxInFlight
     /\ Cardinality(UrbInFlight(p)) = UrbMaxInFlight - urb_semaphore[p]

\* In a group of two a process has broadcast twice and delivered both of
\* its broadcasts: the gate was taken and released twice.
C30_Witness ==
  /\ urb_n = 2
  /\ \E p \in URBProcs :
        /\ Cardinality({b \in urb_broadcasts : b.author = p}) = 2
        /\ UrbInFlight(p) = {}
        /\ urb_semaphore[p] = UrbMaxInFlight


(***************************************************************************)
(* Lattice agreement: claims C22 to C29                                    *)
(***************************************************************************)

\* The values a message carries.
ValuesOf(m) == {DecodeUint32(v) : v \in m.values}

\* The Agreement record process i holds for agreement_nr; the record
\* try_emplace would construct when there is none.
AgreementOf(i, agreement_nr) ==
  IF agreement_nr \in DOMAIN la_agreements[i]
  THEN la_agreements[i][agreement_nr] ELSE NewAgreement

C23_AcceptedValueGrows ==
  [][/\ \A i \in LAProcs :
          \A agreement_nr \in DOMAIN la_agreements[i] :
             /\ agreement_nr \in DOMAIN la_agreements'[i]
             /\ la_agreements[i][agreement_nr].accepted_value \subseteq
                  la_agreements'[i][agreement_nr].accepted_value
     /\ \A r \in la_net' \ la_net :
          r.kind = Ack =>
            \E m \in la_net \ la_net' :
               /\ m.kind = Proposal /\ m.to = r.from /\ m.from = r.to
               /\ m.agreement_nr = r.agreement_nr
               /\ m.proposal_nr = r.proposal_nr
               /\ ValuesOf(m) \subseteq
                    la_agreements'[r.from][DecodeUint32(r.agreement_nr)].accepted_value]_vars

\* An Ack of one process for the Proposal of another is in flight, and the
\* acker has accepted two values.
C23_Witness ==
  \E m \in la_net :
     /\ m.kind = Ack
     /\ m.from # m.to
     /\ Cardinality(AgreementOf(m.from, DecodeUint32(m.agreement_nr)).accepted_value) = 2


\* Process i sends a Proposal for agreement_nr in this step.
SendsProposal(i, agreement_nr) ==
  \E m \in la_net' \ la_net :
     m.kind = Proposal /\ m.from = i /\ DecodeUint32(m.agreement_nr) = agreement_nr

\* The message of a step is an Ack or a Nack for an agreement its receiver
\* has decided: the step only takes the message.
LateRepliesDropped ==
  \A m \in la_net \ la_net' :
     (/\ m.kind \in {Ack, Nack}
      /\ AgreementOf(m.to, DecodeUint32(m.agreement_nr)).has_decided)
       => /\ la_agreements' = la_agreements
          /\ la_decisions' = la_decisions
          /\ la_semaphore' = la_semaphore
          /\ la_net' = la_net \ {m}

\* C24 as stated: once has_decided is set for an agreement at a node, the
\* node sends no Proposal for it and no field of the record changes,
\* accepted_value included, whatever message arrives.
C24_DecidedFrozen ==
  [][/\ \A i \in LAProcs :
          \A agreement_nr \in DOMAIN la_agreements[i] :
             la_agreements[i][agreement_nr].has_decided =>
               /\ ~SendsProposal(i, agreement_nr)
               /\ agreement_nr \in DOMAIN la_agreements'[i]
               /\ la_agreements'[i][agreement_nr] = la_agreements[i][agreement_nr]
     /\ LateRepliesDropped]_vars

\* C24, amended: once has_decided is set for an agreement at a node, the
\* node sends no Proposal for it, has_decided, ack_count, nack_count,
\* proposed_value and proposal_nr of the record do not change, and a late
\* Ack or Nack changes nothing; accepted_value does not shrink (a Proposal
\* of another node still adds its values and is answered).
C24_DecidedProposerFrozen ==
  [][/\ \A i \in LAProcs :
          \A agreement_nr \in DOMAIN la_agreements[i] :
             la_agreements[i][agreement_nr].has_decided =>
               /\ ~SendsProposal(i, agreement_nr)
               /\ agreement_nr \in DOMAIN la_agreements'[i]
               /\ [la_agreements'[i][agreement_nr] EXCEPT
                     !.accepted_value = la_agreements[i][agreement_nr].accepted_value]
                    = la_agreements[i][agreement_nr]
               /\ la_agreements[i][agreement_nr].accepted_value \subseteq
                    la_agreements'[i][agreement_nr].accepted_value
     /\ LateRepliesDropped]_vars

\* A node has decided a set and has accepted a value outside that set, and
\* a reply to the decided agreement is still on its way to the node.
C24_Witness ==
  \E i \in LAProcs :
     \E agreement_nr \in DOMAIN la_agreements[i] :
        /\ la_agreements[i][agreement_nr].has_decided
        /\ ~(la_agreements[i][agreement_nr].accepted_value \subseteq
               la_agreements[i][agreement_nr].proposed_value)
        /\ \E m \in la_net :
              /\ m.to = i /\ m.kind \in {Ack, Nack}
              /\ DecodeUint32(m.agreement_nr) = agreement_nr


\* The invocations of the decision callback of process i for agreement_nr.
DecisionsOf(i, agreement_nr) ==
  {k \in DOMAIN la_decisions[i] : la_decisions[i][k].agreement_nr = agreement_nr}

\* C25: a step invokes the decision callback of a node at most once, only
\* for an agreement the node has not decided before, and passes it the
\* proposed_value the record holds at that moment; so the callback is
\* invoked at most once for an agreement number at a node.
C25_DecideOnce ==
  [][\A i \in LAProcs :
       \/ la_decisions'[i] = la_decisions[i]
       \/ \E d \in [agreement_nr : LAAgreementNrs, values : SUBSET LAValues] :
             /\ la_decisions'[i] = Append(la_decisions[i], d)
             /\ DecisionsOf(i, d.agreement_nr) = {}
             /\ ~AgreementOf(i, d.agreement_nr).has_decided
             /\ la_agreements'[i][d.agreement_nr].has_decided
             /\ d.values = la_agreements'[i][d.agreement_nr].proposed_value]_vars

\* A node has decided two agreements, once each and with different sets,
\* after a round of replies from the other processes.
C25_Witness ==
  \E i \in LAProcs :
     /\ la_n = 3
     /\ Len(la_decisions[i]) = 2
     /\ la_decisions[i][1].agreement_nr # la_decisions[i][2].agreement_nr
     /\ la_decisions[i][1].values # la_decisions[i][2].values
     /\ \A k \in DOMAIN la_decisions[i] :
           la_agreements[i][la_decisions[i][k].agreement_nr].ack_count > 0

\* The replies to the current round of agreement_nr of process i that are
\* counted, on their way, or still to be caused by a Proposal on its way.
RepliesOfRound(i, agreement_nr) ==
  LET agreement == la_agreements[i][agreement_nr]
  IN agreement.ack_count + agreement.nack_count
       + Cardinality({m \in la_net :
                        /\ \/ m.kind \in {Ack, Nack} /\ m.to = i
                           \/ m.kind = Proposal /\ m.from = i
                        /\ DecodeUint32(m.agreement_nr) = agreement_nr
                        /\ DecodeUint32(m.proposal_nr) = agreement.proposal_nr})

\* C26: an Ack or Nack whose proposal_nr is not the current proposal_nr of
\* the agreement changes nothing; the replies to the current round that are
\* counted or still to come are at most N, one for each process, so
\* ack_count + nack_count is at most N and below 256.
C26_StaleRepliesIgnored ==
  /\ [][\A m \in la_net \ la_net' :
          (/\ m.kind \in {Ack, Nack}
           /\ AgreementOf(m.to, DecodeUint32(m.agreement_nr)).proposal_nr
                 # DecodeUint32(m.proposal_nr))
            => /\ la_agreements' = la_agreements
               /\ la_decisions' = la_decisions
               /\ la_semaphore' = la_semaphore
               /\ la_net' = la_net \ {m}]_vars
  /\ [](\A i \in LAProcs :
          \A agreement_nr \in DOMAIN la_agreements[i] :
             /\ RepliesOfRound(i, agreement_nr) <= la_n
             /\ la_agreements[i][agreement_nr].ack_count
                  + la_agreements[i][agreement_nr].nack_count <= la_n
             /\ la_agreements[i][agreement_nr].ack_count
                  + la_agreements[i][agreement_nr].nack_count < ByteRange)

\* A reply to an earlier round of an agreement that is not decided is on
\* its way to the proposer.
C26_Witness ==
  \E m \in la_net :
     /\ m.kind \in {Ack, Nack}
     /\ ~AgreementOf(m.to, DecodeUint32(m.agreement_nr)).has_decided
     /\ AgreementOf(m.to, DecodeUint32(m.agreement_nr)).proposal_nr
          > DecodeUint32(m.proposal_nr)


\* The Proposal messages of round proposal_nr of agreement_nr of process i
\* that are on their way.
ProposalsOfRound(i, agreement_nr, proposal_nr) ==
  {m \in la_net : /\ m.kind = Proposal
                  /\ m.from = i
                  /\ DecodeUint32(m.agreement_nr) = agreement_nr
                  /\ DecodeUint32(m.proposal_nr) = proposal_nr}

\* The values process i passed to propose for agreement_nr, none before the
\* call.
InputOf(i, agreement_nr) ==
  IF agreement_nr \in DOMAIN la_inputs[i] THEN la_inputs[i][agreement_nr] ELSE {}

\* C27: a step that advances an agreement to a new round adds one to
\* proposal_nr and broadcasts a proposed_value that is a strict superset of
\* the set of every Proposal of the previous round; so proposed_value has at
\* least proposal_nr values more than the node proposed, and proposal_nr
\* stays below unique_proposals.
C27_RoundsGrow ==
  /\ [][\A i \in LAProcs :
          \A agreement_nr \in DOMAIN la_agreements'[i] :
             LET old == AgreementOf(i, agreement_nr)
                 new == la_agreements'[i][agreement_nr]
             IN new.proposal_nr # old.proposal_nr
                  => /\ new.proposal_nr = old.proposal_nr + 1
                     /\ old.proposed_value \subseteq new.proposed_value
                     /\ \A m \in ProposalsOfRound(i, agreement_nr, old.proposal_nr) :
                           /\ ValuesOf(m) \subseteq new.proposed_value
                           /\ ValuesOf(m) # new.proposed_value
                     /\ BroadcastProposal(i, new, agreement_nr) \subseteq la_net'
                     /\ BroadcastProposal(i, new, agreement_nr) \cap la_net = {}]_vars
  /\ [](\A i \in LAProcs :
          \A agreement_nr \in DOMAIN la_agreements[i] :
             LET agreement == la_agreements[i][agreement_nr]
             IN /\ Cardinality(agreement.proposed_value)
                     >= Cardinality(InputOf(i, agreement_nr)) + agreement.proposal_nr
                /\ Cardinality(agreement.proposed_value) <= MaxUniqueValues
                /\ agreement.proposal_nr <= MaxUniqueValues
                /\ \A m \in ProposalsOfRound(i, agreement_nr, agreement.proposal_nr) :
                      ValuesOf(m) \subseteq agreement.proposed_value)

\* A node has advanced an agreement to a second round while a Proposal of
\* its first round is still on its way.
C27_Witness ==
  \E i \in LAProcs :
     \E agreement_nr \in DOMAIN la_agreements[i] :
        /\ la_agreements[i][agreement_nr].proposal_nr = 1
        /\ ProposalsOfRound(i, agreement_nr, 0) # {}
        /\ ProposalsOfRound(i, agreement_nr, 1) # {}


\* C28: a step in which proposed_value of an agreement reaches
\* unique_proposals elements decides that set in the same step and sends no
\* Proposal for the agreement; unique_proposals being an upper bound on the
\* values proposed, every decision of an agreement is a subset of a decision
\* of unique_proposals elements of that agreement.
C28_FullSetDecidesAtOnce ==
  /\ [][\A i \in LAProcs :
          \A agreement_nr \in DOMAIN la_agreements'[i] :
             LET old == AgreementOf(i, agreement_nr)
                 new == la_agreements'[i][agreement_nr]
             IN (/\ Cardinality(new.proposed_value) = la_max_unique_values
                 /\ new.proposed_value # old.proposed_value)
                  => /\ new.has_decided
                     /\ la_decisions'[i] =
                          Append(la_decisions[i],
                                 [agreement_nr |-> agreement_nr,
                                  values |-> new.proposed_value])
                     /\ ~SendsProposal(i, agreement_nr)]_vars
  /\ [](\A i \in LAProcs, j \in LAProcs, agreement_nr \in LAAgreementNrs :
          \A full \in DecidedSets(i, agreement_nr) :
             Cardinality(full) = la_max_unique_values
               => \A other \in DecidedSets(j, agreement_nr) : other \subseteq full)

\* A node decided the full set on a Nack while another node decided a
\* smaller set for the same agreement.
C28_Witness ==
  \E i \in LAProcs, j \in LAProcs, agreement_nr \in LAAgreementNrs :
     /\ agreement_nr \in DOMAIN la_agreements[i]
     /\ la_agreements[i][agreement_nr].nack_count > 0
     /\ \E full \in DecidedSets(i, agreement_nr) :
           /\ Cardinality(full) = la_max_unique_values
           /\ \E other \in DecidedSets(j, agreement_nr) :
                 other # full /\ other # {}


\* The agreements process i has proposed and not decided.
LaInFlight(i) ==
  {agreement_nr \in DOMAIN la_inputs[i] :
     ~la_agreements[i][agreement_nr].has_decided}

\* C29: at every node the agreements proposed and not decided are
\* MAX_IN_FLIGHT minus the count of the semaphore, which stays within
\* 0 .. MAX_IN_FLIGHT; a step takes one unit for every propose call it makes
\* and gives back one unit for every decision it makes.
C29_LaInFlightGate ==
  /\ [](\A i \in LAProcs :
          /\ la_semaphore[i] \in 0 .. LAMaxInFlight
          /\ Cardinality(LaInFlight(i)) = LAMaxInFlight - la_semaphore[i]
          /\ Cardinality(LaInFlight(i)) <= LAMaxInFlight)
  /\ [][\A i \in LAProcs :
          la_semaphore'[i] - la_semaphore[i] =
            (Len(la_decisions'[i]) - Len(la_decisions[i]))
              - (la_agreement_nr'[i] - la_agreement_nr[i])]_vars

\* A node that decided its first agreement on the replies of the others has
\* proposed a second one, which holds the gate.
C29_Witness ==
  \E i \in LAProcs :
     /\ la_agreement_nr[i] = 2
     /\ la_agreements[i][0].has_decided
     /\ la_agreements[i][0].ack_count > 0
     /\ LaInFlight(i) = {1}
     /\ la_semaphore[i] = 0


(***************************************************************************)
(* Uniform reliable broadcast: claims C31 and C36                          *)
(***************************************************************************)

\* The listener thread of process p starts an echo in this step: it enters
\* _link.broadcast with the metadata and datas of the datagram it handles.
StartsEcho(p) ==
  /\ urb_thread[p]["listener"].at = "idle"
  /\ urb_thread'[p]["listener"].at = "send"

\* Process p called broadcast with this metadata.
Originated(p, metadata) ==
  \E b \in urb_broadcasts : b.author = p /\ b.metadata = metadata

\* The bits of message_id at process p, none when the map has no entry.
AcksOf(p, message_id) ==
  IF message_id \in DOMAIN urb_acknowledged[p]
  THEN urb_acknowledged[p][message_id] ELSE {}

\* C31: a node starts an echo exactly in the step that handles the first
\* datagram with a BroadcastId, echoes the datagram verbatim to every
\* process, and never echoes a broadcast it originated; a bit of an
\* AckVector is set only for the sender of the datagram handled, whose
\* metadata is that BroadcastId; bits and entries are never removed.
C31_EchoOnceAndAcks ==
  [][\A p \in URBProcs :
       /\ \A d \in urb_net \ urb_net' :
             (d.to = p /\ ~AlreadyDelivered(p, d.from, DecodeSeqNr(d.seq)))
               => /\ StartsEcho(p)
                     <=> DecodeMessageId(d.metadata) \notin DOMAIN urb_acknowledged[p]
                  /\ StartsEcho(p)
                     => /\ urb_thread'[p]["listener"] =
                             Broadcasting(BroadcastOrder(urb_n), d.metadata, d.datas)
                        /\ ~Originated(p, d.metadata)
                  /\ \A message_id \in DOMAIN urb_acknowledged'[p] :
                        urb_acknowledged'[p][message_id] \ AcksOf(p, message_id)
                          \subseteq (IF message_id = DecodeMessageId(d.metadata)
                                      THEN {d.from} ELSE {})
       /\ StartsEcho(p) => \E d \in urb_net \ urb_net' : d.to = p
       /\ \A message_id \in DOMAIN urb_acknowledged[p] :
             /\ message_id \in DOMAIN urb_acknowledged'[p]
             /\ urb_acknowledged[p][message_id]
                  \subseteq urb_acknowledged'[p][message_id]]_vars


(***************************************************************************)
(* Perfect link: claim C38                                                 *)
(***************************************************************************)

\* C38: header round trip -- the seq_nr and process_id decoded from the
\* header a send call prepares are the _seq_nr and id of the sender, and the
\* seq_nr and process_id decoded from an ACK are the seq_nr of the datagram
\* it answers and the id of the process that answers.
C38_HeaderRoundTrip ==
  [][/\ \A p \in PLProcs, t \in PLThreads :
          (pl_thread[p][t].at = "idle" /\ pl_thread'[p][t].at = "prepared")
            => /\ DecodeSeqNr(pl_thread'[p][t].message.seq) = pl_seq_nr[p]
               /\ pl_thread'[p][t].message.process_id = p
     /\ \A a \in pl_net' \ pl_net :
          a.message.is_ack = 1
            => /\ a.message.process_id = a.from
               /\ \E d \in pl_net \ pl_net' :
                     /\ d.to = a.from
                     /\ DecodeSeqNr(a.message.seq) = DecodeSeqNr(d.message.seq)]_vars


(***************************************************************************)
(* FIFO broadcast: claim C40                                               *)
(***************************************************************************)

\* The message (process_id, seq_nr) was handed to the filter by the layer
\* below.
FifoArrived(process_id, seq_nr) ==
  \E k \in DOMAIN fifo_urb :
     fifo_urb[k] = [process_id |-> process_id, seq_nr |-> seq_nr]

\* The filter handed the message (process_id, seq_nr) to the callback.
FifoCalled(process_id, seq_nr) ==
  \E k \in DOMAIN fifo_callbacks :
     /\ fifo_callbacks[k].process_id = process_id
     /\ fifo_callbacks[k].seq_nr = seq_nr

\* C40: after every listen step the buffer of an originator holds only
\* messages with a seq_nr above next_seq_nr; a message that arrived is in
\* the buffer or was handed to the callback, and it was handed to the
\* callback as soon as it and all messages of the originator with a smaller
\* seq_nr had arrived.
C40_BufferAboveNext ==
  \A p \in FifoProcs :
     /\ \A b \in fifo_buffered[p].buffer :
           b.seq_nr > fifo_buffered[p].next_seq_nr
     /\ \A seq_nr \in FifoSeqNrs :
           /\ FifoArrived(p, seq_nr)
                => (FifoCalled(p, seq_nr)
                      <=> ~(\E b \in fifo_buffered[p].buffer : b.seq_nr = seq_nr))
           /\ (\A n \in UrbInitialSeqNr .. seq_nr : FifoArrived(p, n))
                => FifoCalled(p, seq_nr)

\* The second and third message of an originator arrived before the first
\* and were buffered; all three have been handed to the callback.
C40_Witness ==
  \E p \in FifoProcs :
     /\ FifoArrivalsOf(p) # <<>>
     /\ FifoArrivalsOf(p)[1].seq_nr = UrbInitialSeqNr + 1
     /\ Len(FifoArrivalsOf(p)) = MaxFifoSeq
     /\ fifo_buffered[p].buffer = {}
     /\ \A seq_nr \in FifoSeqNrs : FifoCalled(p, seq_nr)


(***************************************************************************)
(* Lattice agreement: claims C37 and C39                                   *)
(***************************************************************************)

\* C37: the agreement numbers a node has proposed for are 0 up to
\* _agreement_nr - 1; a step changes _agreement_nr only by adding one, and
\* it does so exactly when the node makes a propose call, which uses the
\* number _agreement_nr had, unused before, whether the call decides at once
\* or broadcasts a Proposal.
C37_AgreementNrFresh ==
  /\ [](\A i \in LAProcs :
          DOMAIN la_inputs[i] = 0 .. (la_agreement_nr[i] - 1))
  /\ [][\A i \in LAProcs :
          \/ /\ la_agreement_nr'[i] = la_agreement_nr[i]
             /\ la_inputs'[i] = la_inputs[i]
          \/ /\ la_agreement_nr'[i] = la_agreement_nr[i] + 1
             /\ la_agreement_nr[i] \notin DOMAIN la_inputs[i]
             /\ DOMAIN la_inputs'[i] = DOMAIN la_inputs[i] \cup {la_agreement_nr[i]}
             /\ \/ /\ la_decisions'[i] # la_decisions[i]
                   /\ la_decisions'[i][Len(la_decisions'[i])].agreement_nr
                        = la_agreement_nr[i]
                   /\ ~SendsProposal(i, la_agreement_nr[i])
                \/ /\ SendsProposal(i, la_agreement_nr[i])
                   /\ la_decisions'[i] = la_decisions[i]]_vars

\* A node made two propose calls: the first decided the full set without
\* broadcasting, the second broadcast a Proposal for agreement number 1.
C37_Witness ==
  \E i \in LAProcs :
     /\ la_n > 1
     /\ la_agreement_nr[i] = 2
     /\ la_agreements[i][0].has_decided
     /\ la_agreements[i][0].ack_count = 0
     /\ la_agreements[i][0].nack_count = 0
     /\ ProposalsOfRound(i, 1, 0) # {}

\* The Ack and Nack messages on their way.
Replies == {m \in la_net : m.kind \in {Ack, Nack}}

\* C39: the existence assertions of the Ack and Nack handlers never fail:
\* the receiver of every Ack and Nack on its way has a record for the
\* agreement number of the message.
C39_ReplyFindsAgreement ==
  /\ "agreement_entry != _agreements.end()" \notin la_asserts
  /\ \A m \in Replies :
        DecodeUint32(m.agreement_nr) \in DOMAIN la_agreements[m.to]

\* A node has handled an Ack and a Nack of another process for an agreement
\* while a further reply is on its way to it.
C39_Witness ==
  \E i \in LAProcs :
     \E agreement_nr \in DOMAIN la_agreements[i] :
        /\ la_agreements[i][agreement_nr].proposal_nr > 0
        /\ la_agreements[i][agreement_nr].ack_count > 0
        /\ \E m \in Replies :
              /\ m.to = i /\ m.from # i
              /\ DecodeUint32(m.agreement_nr) = agreement_nr


(***************************************************************************)
(* Uniform reliable broadcast with batches of any size: claim C36          *)
(***************************************************************************)

\* The payload batches handed to broadcast(datas...): sizeof...(Data) is 0,
\* 1 or 2.
UrbBatches == {<<>>, <<"m">>, <<"m", "m">>}

URBBatchNext ==
  \/ \E p \in URBProcs, datas \in UrbBatches : UrbBroadcast(p, datas)
  \/ \E p \in URBProcs, t \in URBThreads : LinkSend(p, t)
  \/ \E p \in URBProcs, t \in URBThreads : LinkSendPrepare(p, t)
  \/ \E p \in URBProcs, t \in URBThreads : LinkSendCommit(p, t)
  \/ \E d \in urb_net : UrbListen(d.to, d)
  \/ \E p \in URBProcs : UrbCrash(p)

\* Uniform reliable broadcast after construction, used with batches of any
\* size; the other layers are not running.
InitURBBatches == URBInit /\ PLInit /\ LAInit /\ la_n = 1 /\ FifoInit /\ ApiInit /\ LockInit

SpecURBBatches == InitURBBatches /\ [][URBBatchNext]_vars

\* C36: a broadcast call of a process uses a BroadcastId that no earlier
\* broadcast call of the process used: when the call inserts its message_id
\* the map has no entry for it, and no earlier call sent the same metadata.
C36_DistinctBroadcastIds ==
  [][\A p \in URBProcs :
       urb_semaphore'[p] < urb_semaphore[p]
         => /\ MessageId(p, urb_seq_nr[p]) \notin DOMAIN urb_acknowledged[p]
            /\ ~Originated(p, MessageIdData(p, urb_seq_nr[p], urb_uninit))]_vars


(***************************************************************************)
(* The locks of one process: claims C32 to C35                             *)
(***************************************************************************)

\* C32: while a user callback runs, the thread that invoked it holds no lock
\* of a layer: not _acknowledged_mutex during the delivery callback of
\* uniform reliable broadcast, not _agreements_mutex during the decision
\* callback of lattice agreement.
C32_CallbacksWithoutLock ==
  \A t \in LockThreads :
     /\ lk_pc[t].at = "urb_callback" => lk_held[t] \cap LayerMutexes = {}
     /\ lk_pc[t].at = "la_callback" => lk_held[t] \cap LayerMutexes = {}

\* The steps of a thread inside PerfectLink::send, called by
\* BestEffortBroadcast::send or ::broadcast.
SendLabels == {"send", "send_lock", "send_unlock", "sendto"}

\* C33: a thread of a process that runs lattice agreement does not hold
\* _agreements_mutex while it is inside BEB.send or BEB.broadcast.
C33_NoSendUnderAgreementsMutex ==
  \A t \in LockThreads :
     (lk_stack = "LA" /\ lk_pc[t].at \in SendLabels)
       => AgreementsMutex \notin lk_held[t]

\* The steps of a thread inside Semaphore::acquire.
AcquireLabels == {"acquire", "acquire_check", "acquire_blocked"}

\* Thread t cannot take a step: it waits for a mutex another thread holds,
\* or it is blocked in _cv.wait and was not notified.
Stuck(t) ==
  \/ lk_pc[t].at \in LockLabels /\ ~Free(MutexOf(lk_pc[t].at))
  \/ lk_pc[t].at = "acquire_blocked"
       /\ (t \notin lk_signalled \/ ~Free(SemaphoreMutex))

\* C34: a thread inside the acquire of the in-flight gate holds no lock but
\* the mutex of the semaphore itself; a step that takes a lock of URB or LA
\* is made by a thread that holds no lock of the link; no thread holds both
\* locks of the link; and the threads of the process are never all stuck.
C34_LockDiscipline ==
  /\ [](\A t \in LockThreads :
          /\ lk_pc[t].at \in AcquireLabels
               => lk_held[t] \subseteq {SemaphoreMutex}
          /\ ~(PLMutexes \subseteq lk_held[t]))
  /\ [][\A t \in LockThreads :
          (lk_held'[t] \ lk_held[t]) \cap LayerMutexes # {}
            => lk_held[t] \cap PLMutexes = {}]_vars
  /\ [](\E t \in LockThreads : ~Stuck(t))

\* The user thread is blocked at the gate, holding no lock, while the
\* listener decides under _agreements_mutex and waits for nothing.
C34_Witness ==
  /\ lk_pc["user"].at = "acquire_blocked"
  /\ lk_held["user"] = {}
  /\ lk_pc["listener"].at = "release"
  /\ AgreementsMutex \in lk_held["listener"]

\* C35 (Semaphore): the count is never negative and is the initial count
\* plus the releases minus the acquires that returned; an acquire returns
\* only from a positive count, which it lowers by one, and a release raises
\* the count by one; a thread blocked in acquire returns once the count is
\* positive.
C35_Semaphore ==
  /\ [](/\ lk_count >= 0
         /\ lk_count = LAMaxInFlight + lk_released - lk_acquired
         /\ lk_acquired <= LAMaxInFlight + lk_released)
  /\ [][/\ lk_acquired' # lk_acquired
            => /\ lk_count > 0
               /\ lk_count' = lk_count - 1
               /\ lk_acquired' = lk_acquired + 1
        /\ lk_released' # lk_released
            => /\ lk_count' = lk_count + 1
               /\ lk_released' = lk_released + 1
        /\ (lk_acquired' = lk_acquired /\ lk_released' = lk_released)
            => lk_count' = lk_count]_vars
  /\ \A t \in LockThreads :
        (lk_pc[t].at = "acquire_blocked" /\ lk_count > 0)
          ~> (lk_pc[t].at \notin AcquireLabels)

\* A thread that blocked in acquire was woken by a release and returned.
C35_Witness ==
  /\ lk_woken > 0
  /\ lk_acquired = MaxGateCalls
  /\ lk_waiting = {}
  /\ lk_pc["user"].at \notin AcquireLabels


====
